---- MODULE Spec2Model ----
(***************************************************************************)
(* Model of the extraction-and-backfill pipeline of fcps-study.            *)
(*                                                                         *)
(*   - the explanation backfill driver, scripts/generate-explanations.ts   *)
(*   - the question extraction driver, app/lib/question-extractor.ts, and  *)
(*     its callers scripts/ingest.ts and routes/admin.upload.tsx           *)
(*                                                                         *)
(*   - the model gateway and the JSON repair engine, app/lib/              *)
(*     gemini-client.ts, and validateQuestions                             *)
(*                                                                         *)
(* Each part has its own specification (SpecBackfill, SpecExtract,         *)
(* SpecRepair, SpecGateway, SpecValidate); the variables of the other      *)
(* parts stay at their initial value.                                      *)
(***************************************************************************)
EXTENDS Integers, Sequences, FiniteSets, TLC

(***************************************************************************)
(* Bounds of the model.                                                    *)
(***************************************************************************)
NumQuestions == 3          \* questions in the paper file
MaxBatch == 2              \* largest --batch-size tried
MaxRuns == 2               \* backfill runs over the same input/output paths
MaxRequest == 4            \* page numbers in a request to the rasterizer
SnippetLength == 5         \* the 500 of text.substring(0, 500), scaled to
                           \* the length of the response texts below
MaxFence == 3              \* pieces of a text made of fences and padding
MaxPage == 3               \* largest page number of a range or a document
MaxPerPage == 2            \* most questions the model returns for one page
MaxPieces == 2             \* most pieces in the content of a string literal
MaxRaw == 3                \* longest text of arbitrary characters
MaxCalls == 3              \* gateway calls of one process
MaxChoices == 2            \* most choices of a validated question
MaxStored == 2             \* questions of a paper put into the database
MaxPapers == 2             \* papers inserted
MaxSessions == 1           \* test sessions started
MaxHandlers == 2           \* requests the server handles
MaxAround == 1             \* most questions before and after the one varied

(***************************************************************************)
(* Values.                                                                 *)
(***************************************************************************)
\* correctChoice: number | null.  Null is encoded as -1; answered questions
\* carry the zero-based index 0.
Null == -1
Choices == {Null, 0}

\* explanation?: string | null.  "none" is an absent/null/undefined field,
\* "empty" is the empty string "", "old" a text present in the input file and
\* "gen1", "gen2" the text the model returns during run 1, run 2.
NoExplanation == "none"
EmptyExplanation == "empty"
InputExplanations == {NoExplanation, EmptyExplanation, "old"}

\* JavaScript truthiness of q.explanation: undefined, null and "" are falsy.
Truthy(e) == e \notin {NoExplanation, EmptyExplanation}

VARIABLES
    \* ---- backfill: durable state
    inputFile,          \* questions of the JSON file at inputPath
    outputFile,         \* file at outputPath: [kind, questions]
    runs,               \* backfill processes started so far
    \* ---- backfill: state of the running process (main)
    pc,                 \* position of main
    resume, skipExisting, batchSize,
    data,               \* data.questions
    questionsToProcess, \* indices pushed by the pending loop
    qi,                 \* iterations of the for-of loop whose call has returned
    processed, totalTokens, errors,
    \* ---- backfill: history of the running process
    loaded,             \* data.questions as parsed at start
    startFile,          \* the file at outputPath when the process started
    calls,              \* indices passed to generateExplanation, in order
    failed,             \* indices whose generateExplanation threw
    writeLog,           \* value of processed at every completed saveCheckpoint
    \* ---- extraction
    xpc,                \* position of the caller / extractQuestionsFromPages
    caller, dryRun,
    docPages,           \* pages of the PDF document
    startPage, endPage,
    pageNum,            \* loop variable of extractQuestionsFromPages
    allQuestions, totalUsage,
    result,             \* the returned PaperExtractionResult, or NoResult
    progressLog,        \* arguments of every onProgress call, in order
    gatewayCalls,       \* <<page, n>> of every analyzeImage call, in order:
                        \* n questions returned, or CallFailed
    trace,              \* the steps of the page loop, in order: <<step, page>>
    usageBefore,        \* the gateway's cumulative usage when the run began
    savedFile,          \* intermediate file written by ingest --dry-run
    dbPapers, dbQuestions,
    \* ---- repair engine
    rdoc,               \* the document whose text is given to the engine
    rres,               \* NoRepair, or [cleaned |-> the text after line 254,
                        \*                repaired |-> the text returned]
    \* ---- gateway
    gproc,              \* the program the process runs
    gpc,                \* its position
    apiKey,             \* process.env.GEMINI_API_KEY is set
    inputRead,          \* the script has gone on to read its input
    client,             \* the module variable client: "null" or "created"
    constructed,        \* GeminiClient instances constructed so far
    cumulativeUsage,    \* the field of the instance
    method,             \* the method whose request is in flight
    gwRequests,         \* generateContent requests sent so far
    gwCalls,            \* gateway calls begun so far
    lastCall,           \* the last call that ended: method, outcome, data,
                        \* repairs, requests, response
    okUsage,            \* usage of the calls that returned, since the reset
    respUsage,          \* usage of the calls that got a response, since then
    \* ---- validation
    vq,                 \* the questions given to validateQuestions
    vres,               \* NoValidation, or [threw, errors, questions]
    \* ---- rasterizer
    rzDoc,              \* the PDF: [readable, pages]
    rzRequest,          \* pageNumbers
    rzres,              \* NoImages, or [threw, images |-> page numbers]
    \* ---- command line of ingest.ts
    paperName, paperSource,     \* --name and --source
    \* ---- the repair routine of the on-demand explanation generator
    odres,              \* NoRepair, or [repaired, accepted, data]
    \* ---- the database
    papers,             \* rows of table papers: [id, questionCount]
    questions,          \* rows of table questions: [id, paperId,
                        \* correctChoice, explanation, orderIndex]
    testSessions,       \* rows of table test_sessions: [id, paperId, status,
                        \* answers, score]
    serial,             \* last id given by each table's serial column
    \* ---- processes that use the database
    script,             \* the running script: NoScript, or its program,
                        \* position and local variables
    handlers,           \* the server's request handlers, by slot: Idle, or
                        \* the route, position and local variables
    \* ---- history of the database
    origin,             \* question id -> correctChoice as extracted
    modelCalls,         \* question ids passed to the on-demand generator
    writes              \* <<question id, explanation replaced, explanation
                        \* stored>> of every update by the endpoint

bfVars == <<inputFile, outputFile, runs, pc, resume, skipExisting, batchSize,
            data, questionsToProcess, qi, processed, totalTokens, errors,
            loaded, startFile, calls, failed, writeLog>>
exVars == <<xpc, caller, dryRun, docPages, startPage, endPage, pageNum,
            allQuestions, totalUsage, result, progressLog, gatewayCalls,
            trace, usageBefore, savedFile, dbPapers, dbQuestions>>
rpVars == <<rdoc, rres>>
gwVars == <<gproc, gpc, apiKey, inputRead, client, constructed,
            cumulativeUsage, method, gwRequests, gwCalls, lastCall, okUsage,
            respUsage>>
vqVars == <<vq, vres>>
\* The gateway state other than the cumulative usage.
gwRest == <<gproc, gpc, apiKey, inputRead, client, constructed, method,
            gwRequests, gwCalls, lastCall, okUsage, respUsage>>
rzVars == <<rzDoc, rzRequest, rzres>>
libVars == <<rpVars, gwVars, vqVars, rzVars>>
cliVars == <<paperName, paperSource>>
dbVars == <<papers, questions, testSessions, serial>>
histVars == <<origin, modelCalls, writes>>
appVars == <<cliVars, odres, dbVars, script, handlers, histVars>>
vars == <<bfVars, exVars, appVars, libVars>>

(***************************************************************************)
(* Backfill driver: scripts/generate-explanations.ts                       *)
(***************************************************************************)
Question(cc, ex, oi) ==
    [correctChoice |-> cc, explanation |-> ex, orderIndex |-> oi]

\* The (correctChoice, explanation) pairs of the questions of an input file:
\* unanswered with and without explanation, answered with none, with the
\* empty string and with a text.
QuestionKinds ==
    { <<Null, NoExplanation>>, <<Null, "old">>, <<0, NoExplanation>>,
      <<0, EmptyExplanation>>, <<0, "old">> }

\* The kinds a paper file is mostly made of.
CommonKinds == { <<Null, NoExplanation>>, <<0, NoExplanation>>, <<0, "old">> }

\* The paper files the model starts from: NumQuestions questions, the first
\* of any kind and the others of the common kinds.
InputFiles ==
    { [i \in 1..NumQuestions |-> Question(f[i][1], f[i][2], i - 1)] :
        f \in { g \in [1..NumQuestions -> QuestionKinds] :
                   \A i \in 2..NumQuestions : g[i] \in CommonKinds } }

AbsentFile == [kind |-> "absent", questions |-> <<>>]
\* A file that was truncated for writing but whose content never arrived.
PartialFile == [kind |-> "partial", questions |-> <<>>]
CompleteFile(qs) == [kind |-> "complete", questions |-> qs]

\* Text returned by the model for a question during run r.
Generated(r) == IF r = 1 THEN "gen1" ELSE "gen2"

\* Total token count of the generateJson call for question idx: the prompt
\* embeds the question, so the count differs from question to question.
TokensOf(idx) == idx


\* Lines 164-181: with --resume, data is parsed from the output file when it
\* can be opened and parsed; a missing file (fs.access throws) or an
\* unparseable one (JSON.parse throws) is caught and the input is read.
LoadData_IgnoreCheckpoint(res, out, inp) == inp
LoadData(res, out, inp) ==
    IF res /\ out.kind = "complete" THEN out.questions ELSE inp

\* Lines 193-203: the test of the pending loop for one question.
IsPending_NullNotSkipped(q, skip) == ~(skip /\ Truthy(q.explanation))
IsPending_SkipIgnored(q, skip) == q.correctChoice # Null
IsPending(q, skip) ==
    /\ ~(skip /\ Truthy(q.explanation))
    /\ q.correctChoice # Null

\* Lines 192-203: the indices pushed to questionsToProcess, ascending.
RECURSIVE PendingFrom(_, _, _)
PendingFrom(qs, skip, i) ==
    IF i > Len(qs) THEN <<>>
    ELSE (IF IsPending(qs[i], skip) THEN <<i>> ELSE <<>>)
         \o PendingFrom(qs, skip, i + 1)

QuestionsToProcess_All(qs, skip) == [i \in 1..Len(qs) |-> i]
QuestionsToProcess(qs, skip) == PendingFrom(qs, skip, 1)

\* Line 239: the checkpoint test after processed++.
CheckpointDue_OffByOne(p, b) == p % b = b - 1
CheckpointDue(p, b) == p % b = 0

\* Line 244: the catch block counts the error.
CountError_Dropped(e) == e
CountError(e) == e + 1

\* Line 233: the explanation is written into the record in place.
SetExplanation_First(qs, idx, ex) == [qs EXCEPT ![1].explanation = ex]
SetExplanation(qs, idx, ex) == [qs EXCEPT ![idx].explanation = ex]

\* Lines 250-253: where main goes once the call of iteration n has been
\* handled: the next iteration, or the final save after the loop.
AfterIteration_NoFinalSave(n, todo) ==
    IF n < Len(todo) THEN "loop" ELSE "done"
AfterIteration(n, todo) == IF n < Len(todo) THEN "loop" ELSE "final"

\* Line 128: fs.writeFile(outputPath, JSON.stringify(data, null, 2)) opens the
\* file with flag 'w', which truncates it, and then writes the text.
TruncatedFile(out) == PartialFile
WrittenFile_Loaded(qs) == CompleteFile(loaded)
WrittenFile(qs) == CompleteFile(qs)

\* The memory of a process that is not running.
NoProcess ==
    /\ resume = FALSE /\ skipExisting = FALSE /\ batchSize = 1
    /\ data = <<>> /\ questionsToProcess = <<>> /\ qi = 0
    /\ processed = 0 /\ totalTokens = 0 /\ errors = 0
    /\ loaded = <<>> /\ startFile = AbsentFile
    /\ calls = <<>> /\ failed = {} /\ writeLog = <<>>

InitBackfillVars ==
    /\ inputFile \in InputFiles
    /\ outputFile = AbsentFile
    /\ runs = 0
    /\ pc = "idle"
    /\ NoProcess

\* Lines 131-215: a process is started with its flags; it loads the data,
\* computes the pending indices and exits at once when there are none.
Launch(res, skip, b, r) ==
    /\ pc \in {"idle", "exited", "done", "killed"}
    /\ runs' = r
    /\ resume' = res /\ skipExisting' = skip /\ batchSize' = b
    /\ data' = LoadData(res, outputFile, inputFile)
    /\ loaded' = data'
    /\ startFile' = outputFile
    /\ questionsToProcess' = QuestionsToProcess(data', skip)
    /\ pc' = IF Len(questionsToProcess') = 0 THEN "exited" ELSE "loop"
    /\ qi' = 0 /\ processed' = 0 /\ totalTokens' = 0 /\ errors' = 0
    /\ calls' = <<>> /\ failed' = {} /\ writeLog' = <<>>
    /\ UNCHANGED <<inputFile, outputFile>>
    /\ UNCHANGED <<exVars, appVars, libVars>>

StartRun(res, skip, b) == runs < MaxRuns /\ Launch(res, skip, b, runs + 1)

\* The script is run again with --resume --skip-existing, as line 270 tells
\* the user to; runs beyond MaxRuns are counted as run MaxRuns.
Retry(b) ==
    Launch(TRUE, TRUE, b, IF runs < MaxRuns THEN runs + 1 ELSE MaxRuns)

\* Lines 224-232: the next iteration of the for-of loop begins; it calls
\* generateExplanation for the next pending index and awaits the result.
NextIndex_Restart(todo, n) == todo[1]
NextIndex(todo, n) == todo[n + 1]
IssueCall ==
    /\ pc = "loop"
    /\ calls' = Append(calls, NextIndex(questionsToProcess, qi))
    /\ pc' = "calling"
    /\ UNCHANGED <<inputFile, outputFile, runs, resume, skipExisting,
                   batchSize, data, questionsToProcess, qi, processed,
                   totalTokens, errors, loaded, startFile, failed, writeLog>>
    /\ UNCHANGED <<exVars, appVars, libVars>>

\* Lines 232-242: generateExplanation returns; the explanation is stored,
\* the counters are updated and a checkpoint is started when one is due.
GenerateOk ==
    /\ pc = "calling"
    /\ data' = SetExplanation(data, calls[Len(calls)], Generated(runs))
    /\ totalTokens' = totalTokens + TokensOf(calls[Len(calls)])
    /\ processed' = processed + 1
    /\ qi' = qi + 1
    /\ pc' = IF CheckpointDue(processed', batchSize)
             THEN "checkpoint"
             ELSE AfterIteration(qi', questionsToProcess)
    /\ UNCHANGED <<inputFile, outputFile, runs, resume, skipExisting,
                   batchSize, questionsToProcess, errors, loaded,
                   startFile, calls, failed, writeLog>>
    /\ UNCHANGED <<exVars, appVars, libVars>>

\* Lines 232, 243-249: generateExplanation throws (transport or parse
\* error); the catch block counts it and the loop continues.
GenerateFail ==
    /\ pc = "calling"
    /\ failed' = failed \cup {calls[Len(calls)]}
    /\ errors' = CountError(errors)
    /\ qi' = qi + 1
    /\ pc' = AfterIteration(qi', questionsToProcess)
    /\ UNCHANGED <<inputFile, outputFile, runs, resume, skipExisting,
                   batchSize, data, questionsToProcess, processed,
                   totalTokens, loaded, startFile, calls, writeLog>>
    /\ UNCHANGED <<exVars, appVars, libVars>>

\* saveCheckpoint, first half: the output file is opened and truncated.
WriteFileOpen ==
    /\ pc \in {"checkpoint", "final"}
    /\ outputFile' = TruncatedFile(outputFile)
    /\ pc' = IF pc = "checkpoint" THEN "checkpoint_write" ELSE "final_write"
    /\ UNCHANGED <<inputFile, runs, resume, skipExisting, batchSize, data,
                   questionsToProcess, qi, processed, totalTokens, errors,
                   loaded, startFile, calls, failed, writeLog>>
    /\ UNCHANGED <<exVars, appVars, libVars>>

\* saveCheckpoint, second half: the text is written and the call returns.
WriteFileDone ==
    /\ pc \in {"checkpoint_write", "final_write"}
    /\ outputFile' = WrittenFile(data)
    /\ writeLog' = Append(writeLog, processed)
    /\ pc' = IF pc = "checkpoint_write"
             THEN AfterIteration(qi, questionsToProcess)
             ELSE "done"
    /\ UNCHANGED <<inputFile, runs, resume, skipExisting, batchSize, data,
                   questionsToProcess, qi, processed, totalTokens, errors,
                   loaded, startFile, calls, failed>>
    /\ UNCHANGED <<exVars, appVars, libVars>>

\* The process is terminated from outside; its memory is gone, the files stay.
Kill ==
    /\ pc \in {"loop", "calling", "checkpoint", "checkpoint_write", "final",
               "final_write"}
    /\ pc' = "killed"
    /\ resume' = FALSE /\ skipExisting' = FALSE /\ batchSize' = 1
    /\ data' = <<>> /\ questionsToProcess' = <<>> /\ qi' = 0
    /\ processed' = 0 /\ totalTokens' = 0 /\ errors' = 0
    /\ loaded' = <<>> /\ startFile' = AbsentFile
    /\ calls' = <<>> /\ failed' = {} /\ writeLog' = <<>>
    /\ UNCHANGED <<inputFile, outputFile, runs>>
    /\ UNCHANGED <<exVars, appVars, libVars>>

\* The process is terminated from outside during one of the first runs.
\* The memory it had is kept as the record of the interrupted run until the
\* next run begins.
Interrupt ==
    /\ pc \in {"loop", "calling", "checkpoint", "checkpoint_write", "final",
               "final_write"}
    /\ runs < MaxRuns
    /\ pc' = "killed"
    /\ UNCHANGED <<inputFile, outputFile, runs, resume, skipExisting,
                   batchSize, data, questionsToProcess, qi, processed,
                   totalTokens, errors, loaded, startFile, calls, failed,
                   writeLog>>
    /\ UNCHANGED <<exVars, appVars, libVars>>

NextBackfill ==
    \/ \E res \in BOOLEAN, skip \in BOOLEAN, b \in 1..MaxBatch :
         StartRun(res, skip, b)
    \/ IssueCall
    \/ GenerateOk
    \/ GenerateFail
    \/ WriteFileOpen
    \/ WriteFileDone
    \/ Kill

\* Re-running with --resume --skip-existing over the same output path.
NextRetry ==
    \/ \E b \in 1..MaxBatch : Retry(b)
    \/ IssueCall
    \/ GenerateOk
    \/ GenerateFail
    \/ WriteFileOpen
    \/ WriteFileDone
    \/ Interrupt

\* The script goes on when it can, the user runs it again when it has
\* ended, and the call for a question that is tried again and again
\* succeeds at some time.
FairRetry ==
    /\ WF_vars(\E b \in 1..MaxBatch : Retry(b))
    /\ WF_vars(IssueCall) /\ WF_vars(WriteFileOpen) /\ WF_vars(WriteFileDone)
    /\ \A i \in 1..NumQuestions :
         SF_vars(GenerateOk /\ calls[Len(calls)] = i)

(***************************************************************************)
(* Extraction driver: app/lib/question-extractor.ts, and its callers       *)
(* scripts/ingest.ts ("ingest"), routes/admin.upload.tsx ("upload") and    *)
(* any other importer of the exported function ("api").                    *)
(***************************************************************************)
NoResult == <<>>
CallFailed == -1

\* Token usage of the analyzeImage call that returned resp: one image and
\* the fixed prompt go in, the completion grows with the questions returned.
UsageOf(resp) ==
    [promptTokens |-> 1, completionTokens |-> Len(resp),
     totalTokens |-> 1 + Len(resp)]
ZeroUsage == [promptTokens |-> 0, completionTokens |-> 0, totalTokens |-> 0]

\* Lines 61-65: updateUsage.
UpdateUsage_Overwrite(cum, usage) == usage
UpdateUsage_TotalOnly(cum, usage) ==
    [cum EXCEPT !.totalTokens = cum.totalTokens + usage.totalTokens]
UpdateUsage(cum, usage) ==
    [promptTokens |-> cum.promptTokens + usage.promptTokens,
     completionTokens |-> cum.completionTokens + usage.completionTokens,
     totalTokens |-> cum.totalTokens + usage.totalTokens]

\* The questions arrays a page response can carry: the correctChoice of each
\* of its 0..MaxPerPage questions.
PageResponses == UNION { [1..n -> Choices] : n \in 0..MaxPerPage }

\* convertPdfPagesToImages: walks the pages 1..pages of the document and
\* keeps those in pageSet; the result is ascending by page number.
RECURSIVE WalkPages(_, _, _)
WalkPages(pages, pageSet, pageIndex) ==
    IF pageIndex > pages THEN <<>>
    ELSE (IF pageIndex \in pageSet THEN <<pageIndex>> ELSE <<>>)
         \o WalkPages(pages, pageSet, pageIndex + 1)

ConvertPdfPagesToImages(pages, pageSet) == WalkPages(pages, pageSet, 1)

\* extractQuestionsFromPage, lines 194-200: one record per element of
\* data.questions, with the page attached and a provisional number idx + 1.
\* questionText identifies the element: <<page, position in the response>>.
PageQuestions(page, resp) ==
    [k \in 1..Len(resp) |->
        [questionText |-> <<page, k>>, correctChoice |-> resp[k],
         pageNumber |-> page, questionNumber |-> k]]

\* Lines 256-258: questionNumber = idx + 1 over the whole list.
Renumber_Skipped(qs) == qs
Renumber(qs) == [i \in 1..Len(qs) |-> [qs[i] EXCEPT !.questionNumber = i]]

\* Lines 246-249: the progress report of one extracted page.
ReportProgress(log, hasCallback, current, total, n) ==
    IF hasCallback THEN Append(log, <<current, total, n>>) ELSE log

\* Which callers pass onProgress.
HasCallback(c) == c \in {"ingest", "api"}

\* The range checks a caller makes before it calls extractQuestionsFromPages:
\* ingest.ts lines 84-96, admin.upload.tsx (startPage < 1 || endPage <
\* startPage).  The exported function itself checks nothing.
RangeAccepted(c, sp, ep, pages) ==
    CASE c = "ingest" -> sp >= 1 /\ sp <= pages /\ ep >= sp /\ ep <= pages
      [] c = "upload" -> sp >= 1 /\ ep >= sp
      [] OTHER -> ep >= sp

\* ingest.ts lines 119-136: the intermediate file.
PaperResult(res, sp, ep) ==
    [name |-> paperName, source |-> paperSource,
     startPage |-> sp, endPage |-> ep,
     questions |-> [i \in 1..Len(res.questions) |->
         [questionText |-> res.questions[i].questionText,
          correctChoice |-> res.questions[i].correctChoice,
          orderIndex |-> i - 1]],
     stats |-> [totalQuestions |-> Len(res.questions),
                pagesProcessed |-> res.pagesProcessed,
                tokensUsed |-> res.totalUsage.totalTokens]]

\* import.ts line 81: !data.name || !data.source ||
\* !Array.isArray(data.questions) ends the import; the empty string is falsy.
ImportAccepts(file) == file.name # "" /\ file.source # ""

\* generate-explanations.ts lines 164-189: the backfill driver takes any
\* file that parses and reads data.questions; a question of the
\* intermediate file has no explanation field.
AsPaperData(file) ==
    [i \in 1..Len(file.questions) |->
        Question(file.questions[i].correctChoice, NoExplanation,
                 file.questions[i].orderIndex)]

\* correctChoice ?? 0
OrZero_Keep(cc) == cc
OrZero(cc) == IF cc = Null THEN 0 ELSE cc

\* ingest.ts lines 186-193: the question rows of a paper.
QuestionRows(paperId, qs) ==
    [i \in 1..Len(qs) |->
        [paperId |-> paperId, questionText |-> qs[i].questionText,
         correctChoice |-> OrZero(qs[i].correctChoice),
         explanation |-> NoExplanation, orderIndex |-> i - 1]]

\* import.ts lines 127-134: the question rows made from an intermediate
\* file; orderIndex is q.orderIndex ?? idx and explanation is
\* q.explanation || null.
ImportRows(paperId, qs) ==
    [i \in 1..Len(qs) |->
        [paperId |-> paperId, questionText |-> qs[i].questionText,
         correctChoice |-> OrZero(qs[i].correctChoice),
         explanation |-> NoExplanation,
         orderIndex |-> IF qs[i].orderIndex = Null THEN i - 1
                        ELSE qs[i].orderIndex]]

InitExtractVars ==
    /\ xpc = "idle" /\ caller = "none" /\ dryRun = FALSE
    /\ docPages = 1 /\ startPage = 1 /\ endPage = 1 /\ pageNum = 1
    /\ allQuestions = <<>> /\ totalUsage = ZeroUsage
    /\ result = NoResult /\ progressLog = <<>>
    /\ gatewayCalls = <<>> /\ savedFile = NoResult
    /\ trace = <<>> /\ usageBefore = ZeroUsage
    /\ dbPapers = <<>> /\ dbQuestions = <<>>

\* ingest.ts is a script: its process has made no gateway call before the
\* extraction.  The server callers share the gateway of a process that may
\* have answered earlier requests.
FreshProcess(c) == c = "ingest"

\* A caller is started on a document of `pages` pages; it checks the range
\* and calls extractQuestionsFromPages (lines 218-224).
StartExtract(c, dry, pages, sp, ep) ==
    /\ xpc = "idle"
    /\ FreshProcess(c) => cumulativeUsage = ZeroUsage
    /\ caller' = c /\ dryRun' = dry /\ docPages' = pages
    /\ startPage' = sp /\ endPage' = ep /\ pageNum' = sp
    /\ xpc' = IF RangeAccepted(c, sp, ep, pages) THEN "extracting"
              ELSE "rejected"
    /\ usageBefore' = cumulativeUsage
    /\ UNCHANGED <<allQuestions, totalUsage, result, progressLog,
                   gatewayCalls, trace, savedFile, dbPapers, dbQuestions>>
    /\ UNCHANGED <<bfVars, appVars, libVars>>

\* Where the loop goes when the gateway call of a page throws: nothing
\* catches it inside extractQuestionsFromPages.
OnPageError_Continue == "extracting"
OnPageError == "failed"

\* Line 227: pageNum++.
NextPage_Same(p) == p
NextPage(p) == p + 1

\* Lines 228-233: the page yields no image; the loop continues with the
\* next page, without progress report and without delay.
PageNoImage ==
    /\ xpc = "extracting" /\ pageNum <= endPage
    /\ ConvertPdfPagesToImages(docPages, {pageNum}) = <<>>
    /\ trace' = Append(trace, <<"raster", pageNum>>)
    /\ pageNum' = NextPage(pageNum)
    /\ UNCHANGED <<xpc, caller, dryRun, docPages, startPage, endPage,
                   allQuestions, totalUsage, result, progressLog,
                   gatewayCalls, usageBefore, savedFile, dbPapers,
                   dbQuestions>>
    /\ UNCHANGED <<bfVars, appVars, libVars>>

\* Lines 240-243: the usage of a page is added to the total of the run.
AccumulateUsage_Last(total, usage) == usage
AccumulateUsage(total, usage) ==
    [promptTokens |-> total.promptTokens + usage.promptTokens,
     completionTokens |-> total.completionTokens + usage.completionTokens,
     totalTokens |-> total.totalTokens + usage.totalTokens]

\* Lines 228-235: the page is rasterized and its image is sent to the
\* gateway; the loop awaits the response.
PageCall ==
    /\ xpc = "extracting" /\ pageNum <= endPage
    /\ ConvertPdfPagesToImages(docPages, {pageNum}) # <<>>
    /\ trace' = trace \o << <<"raster", pageNum>>, <<"call", pageNum>> >>
    /\ xpc' = "calling"
    /\ UNCHANGED <<caller, dryRun, docPages, startPage, endPage, pageNum,
                   allQuestions, totalUsage, result, progressLog,
                   gatewayCalls, usageBefore, savedFile, dbPapers,
                   dbQuestions>>
    /\ UNCHANGED <<bfVars, appVars, libVars>>

\* Lines 235-249 (and gemini-client.ts 96-113): the response arrives; the
\* gateway adds its usage and returns the parsed questions; they and the
\* usage are added to the result, and progress is reported.
PageExtracted(resp) ==
    /\ xpc = "calling"
    /\ gatewayCalls' = Append(gatewayCalls, <<pageNum, Len(resp)>>)
    /\ trace' = Append(trace, <<"resp", pageNum>>)
    /\ cumulativeUsage' = UpdateUsage(cumulativeUsage, UsageOf(resp))
    /\ allQuestions' = allQuestions \o PageQuestions(pageNum, resp)
    /\ totalUsage' = AccumulateUsage(totalUsage, UsageOf(resp))
    /\ progressLog' = ReportProgress(progressLog, HasCallback(caller),
                                     pageNum - startPage + 1,
                                     endPage - startPage + 1, Len(resp))
    /\ xpc' = "delay"
    /\ UNCHANGED <<caller, dryRun, docPages, startPage, endPage, pageNum,
                   result, usageBefore, savedFile, dbPapers, dbQuestions>>
    /\ UNCHANGED <<bfVars, appVars, rpVars, gwRest, vqVars, rzVars>>

\* Line 252: the inter-page delay has been awaited.
AwaitDelay_Skipped(t, p) == t
AwaitDelay(t, p) == Append(t, <<"delay", p>>)

\* Lines 252-253, 227: after the delay the loop goes to the next page.
Delay ==
    /\ xpc = "delay"
    /\ trace' = AwaitDelay(trace, pageNum)
    /\ pageNum' = NextPage(pageNum)
    /\ xpc' = "extracting"
    /\ UNCHANGED <<caller, dryRun, docPages, startPage, endPage,
                   allQuestions, totalUsage, result, progressLog,
                   gatewayCalls, usageBefore, savedFile, dbPapers,
                   dbQuestions>>
    /\ UNCHANGED <<bfVars, appVars, libVars>>

\* Line 235: analyzeImage throws; the error leaves
\* extractQuestionsFromPages.  A transport error (gemini-client.ts line 75)
\* adds no usage; after a parse error (lines 105-111) the usage of the
\* response has been added at line 103.
PageExtractFail(kind) ==
    /\ xpc = "calling"
    /\ gatewayCalls' = Append(gatewayCalls, <<pageNum, CallFailed>>)
    /\ trace' = Append(trace, <<"fail", pageNum>>)
    /\ cumulativeUsage' = IF kind = "parse"
                          THEN UpdateUsage(cumulativeUsage, UsageOf(<<>>))
                          ELSE cumulativeUsage
    /\ xpc' = OnPageError
    /\ UNCHANGED <<caller, dryRun, docPages, startPage, endPage, pageNum,
                   allQuestions, totalUsage, result, progressLog,
                   usageBefore, savedFile, dbPapers, dbQuestions>>
    /\ UNCHANGED <<bfVars, appVars, rpVars, gwRest, vqVars, rzVars>>

\* Lines 47-50: the document cannot be read; convertPdfPagesToImages throws.
RasterizeFail ==
    /\ xpc = "extracting" /\ pageNum <= endPage
    /\ xpc' = "failed"
    /\ UNCHANGED <<caller, dryRun, docPages, startPage, endPage, pageNum,
                   allQuestions, totalUsage, result, progressLog,
                   gatewayCalls, trace, usageBefore, savedFile, dbPapers,
                   dbQuestions>>
    /\ UNCHANGED <<bfVars, appVars, libVars>>

\* Lines 255-264: after the loop the questions are renumbered and returned.
ReturnResult ==
    /\ xpc = "extracting" /\ pageNum > endPage
    /\ allQuestions' = Renumber(allQuestions)
    /\ result' = [questions |-> allQuestions', totalUsage |-> totalUsage,
                  pagesProcessed |-> endPage - startPage + 1]
    /\ xpc' = "returned"
    /\ UNCHANGED <<caller, dryRun, docPages, startPage, endPage, pageNum,
                   totalUsage, progressLog, gatewayCalls, savedFile,
                   dbPapers, dbQuestions>>
    /\ UNCHANGED <<trace, usageBefore>>
    /\ UNCHANGED <<bfVars, appVars, libVars>>

\* ingest.ts lines 157-170: --dry-run writes the intermediate file;
\* admin.upload.tsx returns a preview; an api caller just has the result.
FinishWithoutStore ==
    /\ xpc = "returned"
    /\ caller = "api" \/ dryRun
    /\ savedFile' = IF caller = "ingest"
                    THEN PaperResult(result, startPage, endPage)
                    ELSE savedFile
    /\ xpc' = "done"
    /\ UNCHANGED <<caller, dryRun, docPages, startPage, endPage, pageNum,
                   allQuestions, totalUsage, result, progressLog,
                   gatewayCalls, dbPapers, dbQuestions>>
    /\ UNCHANGED <<trace, usageBefore>>
    /\ UNCHANGED <<bfVars, appVars, libVars>>

\* ingest.ts lines 175-182: the paper row is inserted.
InsertPaper ==
    /\ xpc = "returned"
    /\ caller \in {"ingest", "upload"} /\ ~dryRun
    /\ dbPapers' = Append(dbPapers,
           [id |-> Len(dbPapers) + 1,
            questionCount |-> Len(result.questions)])
    /\ xpc' = IF Len(result.questions) > 0 THEN "paper_inserted" ELSE "done"
    /\ UNCHANGED <<caller, dryRun, docPages, startPage, endPage, pageNum,
                   allQuestions, totalUsage, result, progressLog,
                   gatewayCalls, savedFile, dbQuestions>>
    /\ UNCHANGED <<trace, usageBefore>>
    /\ UNCHANGED <<bfVars, appVars, libVars>>

\* ingest.ts lines 184-195: the question rows are inserted.
InsertQuestions ==
    /\ xpc = "paper_inserted"
    /\ dbQuestions' = dbQuestions
           \o QuestionRows(dbPapers[Len(dbPapers)].id, result.questions)
    /\ xpc' = "done"
    /\ UNCHANGED <<caller, dryRun, docPages, startPage, endPage, pageNum,
                   allQuestions, totalUsage, result, progressLog,
                   gatewayCalls, savedFile, dbPapers>>
    /\ UNCHANGED <<trace, usageBefore>>
    /\ UNCHANGED <<bfVars, appVars, libVars>>

\* import.ts lines 107-114: the file written by ingest --dry-run is
\* imported; the paper row is inserted.
ImportPaper ==
    /\ xpc = "done" /\ caller = "ingest" /\ dryRun
    /\ ImportAccepts(savedFile)
    /\ dbPapers' = Append(dbPapers,
           [id |-> Len(dbPapers) + 1,
            questionCount |-> Len(savedFile.questions)])
    /\ xpc' = IF Len(savedFile.questions) > 0 THEN "import_paper"
              ELSE "imported"
    /\ UNCHANGED <<caller, dryRun, docPages, startPage, endPage, pageNum,
                   allQuestions, totalUsage, result, progressLog,
                   gatewayCalls, savedFile, dbQuestions>>
    /\ UNCHANGED <<trace, usageBefore>>
    /\ UNCHANGED <<bfVars, appVars, libVars>>

\* import.ts lines 121-139: the question rows are inserted.
ImportQuestions ==
    /\ xpc = "import_paper"
    /\ dbQuestions' = dbQuestions
           \o ImportRows(dbPapers[Len(dbPapers)].id, savedFile.questions)
    /\ xpc' = "imported"
    /\ UNCHANGED <<caller, dryRun, docPages, startPage, endPage, pageNum,
                   allQuestions, totalUsage, result, progressLog,
                   gatewayCalls, savedFile, dbPapers>>
    /\ UNCHANGED <<trace, usageBefore>>
    /\ UNCHANGED <<bfVars, appVars, libVars>>

\* import.ts lines 81-86: the file is refused and the process exits.
ImportRejected ==
    /\ xpc = "done" /\ caller = "ingest" /\ dryRun
    /\ ~ImportAccepts(savedFile)
    /\ xpc' = "import_rejected"
    /\ UNCHANGED <<caller, dryRun, docPages, startPage, endPage, pageNum,
                   allQuestions, totalUsage, result, progressLog,
                   gatewayCalls, savedFile, dbPapers, dbQuestions>>
    /\ UNCHANGED <<trace, usageBefore>>
    /\ UNCHANGED <<bfVars, appVars, libVars>>

NextExtract ==
    \/ \E c \in {"ingest", "upload", "api"}, dry \in BOOLEAN,
          pages \in 1..MaxPage, sp \in 0..MaxPage, ep \in 1..MaxPage :
         StartExtract(c, dry, pages, sp, ep)
    \/ PageNoImage
    \/ PageCall
    \/ \E resp \in PageResponses : PageExtracted(resp)
    \/ Delay
    \/ \E kind \in {"transport", "parse"} : PageExtractFail(kind)
    \/ RasterizeFail
    \/ ReturnResult
    \/ FinishWithoutStore
    \/ InsertPaper
    \/ InsertQuestions
    \/ ImportPaper
    \/ ImportQuestions

\* ingest.ts --dry-run followed by import.ts on the file it wrote.  The
\* range check of ingest.ts leaves no page without image.
NextIngest ==
    \/ \E pages \in 1..MaxPage, sp \in 0..MaxPage, ep \in 1..MaxPage :
         StartExtract("ingest", TRUE, pages, sp, ep)
    \/ PageCall
    \/ \E resp \in PageResponses : PageExtracted(resp)
    \/ Delay
    \/ \E kind \in {"transport", "parse"} : PageExtractFail(kind)
    \/ RasterizeFail
    \/ ReturnResult
    \/ FinishWithoutStore
    \/ ImportPaper
    \/ ImportQuestions
    \/ ImportRejected

\* extractQuestionsFromPages alone, from its call to its return, in a
\* process whose gateway may have been used before.  The page responses
\* differ in the number of questions only.
SizedResponses == { [i \in 1..n |-> Null] : n \in 0..MaxPerPage }

NextDriver ==
    \/ \E c \in {"ingest", "upload", "api"},
          pages \in 1..MaxPage, sp \in 0..MaxPage, ep \in 1..MaxPage :
         StartExtract(c, FALSE, pages, sp, ep)
    \/ PageNoImage
    \/ PageCall
    \/ \E resp \in SizedResponses : PageExtracted(resp)
    \/ Delay
    \/ \E kind \in {"transport", "parse"} : PageExtractFail(kind)
    \/ RasterizeFail
    \/ ReturnResult

(***************************************************************************)
(* Text: a string is a sequence of characters.                             *)
(***************************************************************************)
QUOTE == "\""
BSLASH == "\\"
NL == "\n"
CR == "\r"
TAB == "\t"
SP == " "
TICK == "backquote"     \* the character U+0060

\* The characters String.prototype.trim removes and JSON.parse skips between
\* tokens (of the characters used here).
Whitespace == {SP, NL, CR, TAB}

RECURSIVE TrimStart(_)
TrimStart(s) ==
    IF s # <<>> /\ Head(s) \in Whitespace THEN TrimStart(Tail(s)) ELSE s

RECURSIVE TrimEnd(_)
TrimEnd(s) ==
    IF s # <<>> /\ s[Len(s)] \in Whitespace
    THEN TrimEnd(SubSeq(s, 1, Len(s) - 1)) ELSE s

Trim(s) == TrimEnd(TrimStart(s))

StartsWith(s, p) == Len(s) >= Len(p) /\ SubSeq(s, 1, Len(p)) = p
EndsWith(s, p) ==
    Len(s) >= Len(p) /\ SubSeq(s, Len(s) - Len(p) + 1, Len(s)) = p

(***************************************************************************)
(* The repair engine: sanitizeJsonResponse, gemini-client.ts 242-288.      *)
(***************************************************************************)
FenceJson == <<TICK, TICK, TICK, "j", "s", "o", "n">>
Fence == <<TICK, TICK, TICK>>

\* Lines 246-250: one opening fence is removed, the tagged one first.
StripOpening_BareFirst(c) ==
    IF StartsWith(c, Fence) THEN SubSeq(c, 4, Len(c)) ELSE c
StripOpening(c) ==
    IF StartsWith(c, FenceJson) THEN SubSeq(c, 8, Len(c))
    ELSE IF StartsWith(c, Fence) THEN SubSeq(c, 4, Len(c))
    ELSE c

\* Lines 251-253: one closing fence is removed.
StripClosing(c) ==
    IF EndsWith(c, Fence) THEN SubSeq(c, 1, Len(c) - 3) ELSE c

\* Lines 244-254: trim, strip the fences, trim again.
StripFences(text) == Trim(StripClosing(StripOpening(Trim(text))))

\* Lines 273-281: the replacement of one character inside a string.
EscapeControl(ch) ==
    CASE ch = NL -> <<BSLASH, "n">>
      [] ch = CR -> <<BSLASH, "r">>
      [] ch = TAB -> <<BSLASH, "t">>
      [] OTHER -> <<ch>>

\* Lines 270-284: what the scan emits for a character that is not a toggle.
EmitEverywhere(inString, ch) == EscapeControl(ch)
EmitVerbatim(inString, ch) == <<ch>>
Emit(inString, ch) == IF inString THEN EscapeControl(ch) ELSE <<ch>>

\* Line 267: a double quote toggles inString unless the character before it
\* is a backslash.
IsToggle_AnyQuote(c, i) == c[i] = QUOTE
IsToggle(c, i) == c[i] = QUOTE /\ (i = 1 \/ c[i - 1] # BSLASH)

\* Lines 263-285: the scan.
RECURSIVE ScanFrom(_, _, _)
ScanFrom(c, i, inString) ==
    IF i > Len(c) THEN <<>>
    ELSE IF IsToggle(c, i)
         THEN <<c[i]>> \o ScanFrom(c, i + 1, ~inString)
         ELSE Emit(inString, c[i]) \o ScanFrom(c, i + 1, inString)

SanitizeJsonResponse(text) == ScanFrom(StripFences(text), 1, FALSE)

(***************************************************************************)
(* JSON.parse on texts over the characters                                 *)
(*     { } : " \ backquote LF CR TAB space 1 a j n o r s t                 *)
(* With no comma, bracket, sign, dot or other letter, the JSON texts are   *)
(* exactly: whitespace, then a value, then whitespace, where a value is a  *)
(* string, a number 1..1, the object {} or an object with one member.      *)
(* A parsed value is <<"string", chars>>, <<"number", digits>>,            *)
(* <<"object">> or <<"object", key chars, value>>.                         *)
(***************************************************************************)
ParseFail == [ok |-> FALSE, val |-> <<>>, next |-> 0]

\* The character an escape sequence stands for.
Unescape(ch) ==
    CASE ch = "n" -> NL
      [] ch = "r" -> CR
      [] ch = "t" -> TAB
      [] OTHER -> ch

RECURSIVE SkipWs(_, _)
SkipWs(s, i) ==
    IF i <= Len(s) /\ s[i] \in Whitespace THEN SkipWs(s, i + 1) ELSE i

\* The rest of a string literal, from position i, after the opening quote.
RECURSIVE ParseStringFrom(_, _, _)
ParseStringFrom(s, i, acc) ==
    IF i > Len(s) THEN ParseFail
    ELSE IF s[i] = QUOTE
         THEN [ok |-> TRUE, val |-> <<"string", acc>>, next |-> i + 1]
    ELSE IF s[i] = BSLASH
         THEN IF i + 1 <= Len(s) /\ s[i + 1] \in {QUOTE, BSLASH, "n", "r", "t"}
              THEN ParseStringFrom(s, i + 2, Append(acc, Unescape(s[i + 1])))
              ELSE ParseFail
    ELSE IF s[i] \in {NL, CR, TAB} THEN ParseFail
    ELSE ParseStringFrom(s, i + 1, Append(acc, s[i]))

RECURSIVE ParseNumberFrom(_, _, _)
ParseNumberFrom(s, i, acc) ==
    IF i <= Len(s) /\ s[i] = "1"
    THEN ParseNumberFrom(s, i + 1, Append(acc, "1"))
    ELSE [ok |-> TRUE, val |-> <<"number", acc>>, next |-> i]

RECURSIVE ParseValue(_, _)
\* The rest of an object, from position i, after the opening brace.
ParseObjectFrom(s, i) ==
    LET j == SkipWs(s, i) IN
    IF j > Len(s) THEN ParseFail
    ELSE IF s[j] = "}"
         THEN [ok |-> TRUE, val |-> <<"object">>, next |-> j + 1]
    ELSE IF s[j] # QUOTE THEN ParseFail
    ELSE LET key == ParseStringFrom(s, j + 1, <<>>) IN
         IF ~key.ok THEN ParseFail
         ELSE LET k == SkipWs(s, key.next) IN
              IF k > Len(s) \/ s[k] # ":" THEN ParseFail
              ELSE LET v == ParseValue(s, k + 1) IN
                   IF ~v.ok THEN ParseFail
                   ELSE LET e == SkipWs(s, v.next) IN
                        IF e > Len(s) \/ s[e] # "}" THEN ParseFail
                        ELSE [ok |-> TRUE,
                              val |-> <<"object", key.val[2], v.val>>,
                              next |-> e + 1]

ParseValue(s, i) ==
    LET j == SkipWs(s, i) IN
    IF j > Len(s) THEN ParseFail
    ELSE IF s[j] = QUOTE THEN ParseStringFrom(s, j + 1, <<>>)
    ELSE IF s[j] = "{" THEN ParseObjectFrom(s, j + 1)
    ELSE IF s[j] = "1" THEN ParseNumberFrom(s, j, <<>>)
    ELSE ParseFail

\* JSON.parse(text): ok is FALSE when it throws.
JsonParse(text) ==
    LET v == ParseValue(text, 1) IN
    IF v.ok /\ SkipWs(text, v.next) > Len(text)
    THEN [ok |-> TRUE, val |-> v.val]
    ELSE [ok |-> FALSE, val |-> <<>>]

(***************************************************************************)
(* The second copy of the repair routine: sanitizeJsonResponse and the     *)
(* parsing of the response in lib/explanation-generator.server.ts, written *)
(* as the loop it is: i is the zero-based index, result the text so far.   *)
(***************************************************************************)
\* Lines 46-57.
ExplainerClean(text) ==
    LET trimmed == Trim(text)
        opened == IF StartsWith(trimmed, FenceJson)
                  THEN SubSeq(trimmed, 8, Len(trimmed))
                  ELSE IF StartsWith(trimmed, Fence)
                       THEN SubSeq(trimmed, 4, Len(trimmed))
                       ELSE trimmed
        closed == IF EndsWith(opened, Fence)
                  THEN SubSeq(opened, 1, Len(opened) - 3)
                  ELSE opened
    IN Trim(closed)

\* Line 67: char === '"' && (i === 0 || cleaned[i - 1] !== "\\").
ExplainerToggles_AnyQuote(cleaned, i) == cleaned[i + 1] = QUOTE
ExplainerToggles(cleaned, i) ==
    cleaned[i + 1] = QUOTE /\ (i = 0 \/ cleaned[i] # BSLASH)

\* Lines 64-84: the while loop.
RECURSIVE ExplainerLoop(_, _, _, _)
ExplainerLoop(cleaned, i, inString, res) ==
    IF ~(i < Len(cleaned)) THEN res
    ELSE LET char == cleaned[i + 1] IN
         IF ExplainerToggles(cleaned, i)
         THEN ExplainerLoop(cleaned, i + 1, ~inString, Append(res, char))
         ELSE IF inString
              THEN IF char = NL
                   THEN ExplainerLoop(cleaned, i + 1, inString,
                                      res \o <<BSLASH, "n">>)
                   ELSE IF char = CR
                   THEN ExplainerLoop(cleaned, i + 1, inString,
                                      res \o <<BSLASH, "r">>)
                   ELSE IF char = TAB
                   THEN ExplainerLoop(cleaned, i + 1, inString,
                                      res \o <<BSLASH, "t">>)
                   ELSE ExplainerLoop(cleaned, i + 1, inString,
                                      Append(res, char))
              ELSE ExplainerLoop(cleaned, i + 1, inString, Append(res, char))

\* Lines 45-87.
ExplainerSanitizeJsonResponse(text) ==
    ExplainerLoop(ExplainerClean(text), 0, FALSE, <<>>)

\* Lines 113-126 of generateExplanation: the text is parsed, and when that
\* throws the sanitized text is; parsed is FALSE when the second parse
\* throws too.
ExplainerParse(text) ==
    IF JsonParse(text).ok
    THEN [parsed |-> TRUE, data |-> JsonParse(text).val]
    ELSE IF JsonParse(ExplainerSanitizeJsonResponse(text)).ok
         THEN [parsed |-> TRUE,
               data |-> JsonParse(ExplainerSanitizeJsonResponse(text)).val]
         ELSE [parsed |-> FALSE, data |-> <<>>]

(***************************************************************************)
(* Response texts.  A document describes how a text is built, so that the  *)
(* value its author meant is known without parsing it.                     *)
(***************************************************************************)
\* A piece of the content of a string literal: the characters written in
\* the text (src) and the characters they stand for (val).
Piece(src, val) == [src |-> src, val |-> val]
PlainA == Piece(<<"a">>, <<"a">>)
EscBackslash == Piece(<<BSLASH, BSLASH>>, <<BSLASH>>)
EscQuote == Piece(<<BSLASH, QUOTE>>, <<QUOTE>>)
EscNewline == Piece(<<BSLASH, "n">>, <<NL>>)
RawNewline == Piece(<<NL>>, <<NL>>)
RawTab == Piece(<<TAB>>, <<TAB>>)
Pieces == {PlainA, EscBackslash, EscQuote, EscNewline, RawNewline, RawTab}
RawPieces == {RawNewline, RawTab}

Contents == UNION { [1..n -> Pieces] : n \in 0..MaxPieces }
Keys == { <<PlainA>>, <<EscBackslash>> }
Gaps == { <<>>, <<NL>> }
RawChars == {"{", "}", QUOTE, ":", BSLASH, NL, "a", "1", TICK}
RawTexts == UNION { [1..n -> RawChars] : n \in 0..MaxRaw }

\* Texts made of fences, padding and a letter, in any arrangement.
FencePieces == {Fence, FenceJson, <<SP>>, <<NL>>, <<"a">>}
RECURSIVE Flatten(_)
Flatten(ps) == IF ps = <<>> THEN <<>> ELSE Head(ps) \o Flatten(Tail(ps))
FenceTexts ==
    { Flatten(ps) : ps \in UNION { [1..n -> FencePieces] : n \in 0..MaxFence } }

RECURSIVE SrcOf(_)
SrcOf(ps) == IF ps = <<>> THEN <<>> ELSE Head(ps).src \o SrcOf(Tail(ps))
RECURSIVE ValOf(_)
ValOf(ps) == IF ps = <<>> THEN <<>> ELSE Head(ps).val \o ValOf(Tail(ps))

StringLiteral(ps) == <<QUOTE>> \o SrcOf(ps) \o <<QUOTE>>

\* shape "string": a string literal; "object": an object with one string
\* member, with optional line breaks after the key and after the value;
\* "raw": any characters.  The body may be wrapped in a code fence and
\* padded.
ObjectDocs ==
    [shape : {"object"}, key : Keys, ws1 : Gaps, content : Contents,
     ws2 : Gaps, raw : {<<>>},
     opener : {<<>>, Fence, FenceJson}, gap : Gaps, closer : {<<>>, Fence},
     padded : BOOLEAN]
StringDocs ==
    [shape : {"string"}, key : {<<>>}, ws1 : {<<>>}, content : Contents,
     ws2 : {<<>>}, raw : {<<>>},
     opener : {<<>>, Fence, FenceJson}, gap : Gaps, closer : {<<>>, Fence},
     padded : BOOLEAN]
RawDocs ==
    [shape : {"raw"}, key : {<<>>}, ws1 : {<<>>}, content : {<<>>},
     ws2 : {<<>>}, raw : RawTexts \cup FenceTexts,
     opener : {<<>>}, gap : {<<>>}, closer : {<<>>}, padded : {FALSE}]
Docs == ObjectDocs \cup StringDocs \cup RawDocs

Body(d) ==
    CASE d.shape = "object" ->
            <<"{">> \o StringLiteral(d.key) \o d.ws1 \o <<":">>
                \o StringLiteral(d.content) \o d.ws2 \o <<"}">>
      [] d.shape = "string" -> StringLiteral(d.content)
      [] OTHER -> d.raw

Render(d) ==
    (IF d.padded THEN <<SP>> ELSE <<>>)
        \o d.opener \o (IF d.opener = <<>> THEN <<>> ELSE d.gap)
        \o Body(d)
        \o (IF d.closer = <<>> THEN <<>> ELSE d.gap) \o d.closer
        \o (IF d.padded THEN <<NL>> ELSE <<>>)

\* The value the author of the document meant (raw documents mean nothing).
Meant(d) ==
    CASE d.shape = "object" -> <<"object", ValOf(d.key),
                                 <<"string", ValOf(d.content)>> >>
      [] d.shape = "string" -> <<"string", ValOf(d.content)>>
      [] OTHER -> <<>>

(***************************************************************************)
(* The repair engine applied to one text.                                  *)
(***************************************************************************)
NoRepair == <<>>
NoDoc == <<>>

InitRepairIdle == rdoc = NoDoc /\ rres = NoRepair

InitRepairVars == rdoc \in Docs /\ rres = NoRepair

\* sanitizeJsonResponse(text) returns.
Sanitize ==
    /\ rdoc # NoDoc /\ rres = NoRepair
    /\ rres' = [cleaned |-> StripFences(Render(rdoc)),
                 repaired |-> SanitizeJsonResponse(Render(rdoc))]
    /\ UNCHANGED <<rdoc, bfVars, appVars, exVars, gwVars, vqVars, rzVars>>

\* The same text is given to the copy of the explanation generator.
ExplainerSanitize ==
    /\ rdoc # NoDoc /\ odres = NoRepair
    /\ odres' = [repaired |-> ExplainerSanitizeJsonResponse(Render(rdoc)),
                 accepted |-> ExplainerParse(Render(rdoc)).parsed,
                 data |-> ExplainerParse(Render(rdoc)).data]
    /\ UNCHANGED <<cliVars, dbVars, script, handlers, histVars>>
    /\ UNCHANGED <<bfVars, exVars, libVars>>

NextRepair == Sanitize \/ ExplainerSanitize

(***************************************************************************)
(* The model gateway: gemini-client.ts.                                    *)
(***************************************************************************)
Doc(shape, key, ws1, content, ws2, raw, opener, gap, closer) ==
    [shape |-> shape, key |-> key, ws1 |-> ws1, content |-> content,
     ws2 |-> ws2, raw |-> raw, opener |-> opener, gap |-> gap,
     closer |-> closer, padded |-> FALSE]

\* The texts the model answers with: a JSON object; the same in a tagged
\* fence; an object with a raw line break in its string; an object whose key
\* ends in an escaped backslash, alone and, with a raw line break in the
\* value, in a fence; a truncated text; the empty text.
ResponseDocs ==
    << Doc("object", <<PlainA>>, <<>>, <<PlainA>>, <<>>, <<>>,
           <<>>, <<>>, <<>>),
       Doc("object", <<PlainA>>, <<>>, <<PlainA>>, <<>>, <<>>,
           FenceJson, <<NL>>, Fence),
       Doc("object", <<PlainA>>, <<>>, <<PlainA, RawNewline>>, <<>>, <<>>,
           <<>>, <<>>, <<>>),
       Doc("object", <<EscBackslash>>, <<NL>>, <<PlainA>>, <<>>, <<>>,
           <<>>, <<>>, <<>>),
       Doc("object", <<EscBackslash>>, <<>>, <<RawNewline>>, <<>>, <<>>,
           FenceJson, <<NL>>, Fence),
       Doc("raw", <<>>, <<>>, <<>>, <<>>, <<"{", QUOTE>>, <<>>, <<>>, <<>>),
       Doc("raw", <<>>, <<>>, <<>>, <<>>, <<>>, <<>>, <<>>, <<>>) >>
Responses == 1..Len(ResponseDocs)
ResponseText(r) == Render(ResponseDocs[r])

\* Lines 96-101: the usage reported with response r; a response without
\* usage metadata counts as zero.  totalTokens is reported by the service
\* and may exceed the sum of the two other counts.
ResponseUsage(r) ==
    IF ResponseText(r) = <<>> THEN ZeroUsage
    ELSE [promptTokens |-> r, completionTokens |-> Len(ResponseText(r)),
          totalTokens |-> r + Len(ResponseText(r)) + (r % 2)]

\* Lines 20-26: estimateCost, in units of 10^-7 dollars:
\* (prompt / 10^6) * 0.30 + (completion / 10^6) * 2.50 dollars.
InputPrice == 3
OutputPrice == 25
EstimateCost(usage) ==
    InputPrice * usage.promptTokens + OutputPrice * usage.completionTokens

\* What a method makes of the response text: the outcome, the data returned
\* and the number of passes through the repair engine.
Outcome(o, val, repairs) ==
    [outcome |-> o, data |-> val, repairs |-> repairs]

\* Lines 167-190: generateText returns the text as it is.
GenerateTextResult(text) == Outcome("ok", text, 0)

\* Lines 105-113 and 157-164: analyzeImage and analyzeMultipleImages parse
\* the text once.
AnalyzeImageResult(text) ==
    IF JsonParse(text).ok THEN Outcome("ok", JsonParse(text).val, 0)
    ELSE Outcome("parse", <<>>, 0)

\* Lines 217-232: generateJson parses the text, and on failure the
\* sanitized text.
GenerateJsonResult_NoRepair(text) ==
    IF JsonParse(text).ok THEN Outcome("ok", JsonParse(text).val, 0)
    ELSE Outcome("parse", <<>>, 0)
GenerateJsonResult(text) ==
    IF JsonParse(text).ok THEN Outcome("ok", JsonParse(text).val, 0)
    ELSE LET sanitized == SanitizeJsonResponse(text) IN
         IF JsonParse(sanitized).ok
         THEN Outcome("ok", JsonParse(sanitized).val, 1)
         ELSE Outcome("parse", <<>>, 1)

MethodResult(mth, text) ==
    CASE mth = "generateText" -> GenerateTextResult(text)
      [] mth = "generateJson" -> GenerateJsonResult(text)
      [] OTHER -> AnalyzeImageResult(text)

\* Lines 110, 161 and 227-229: the part of the response text that the
\* message of a parse error carries: analyzeImage and analyzeMultipleImages
\* interpolate the text, generateJson text.substring(0, 500).
Substring(text, n) ==
    SubSeq(text, 1, IF Len(text) < n THEN Len(text) ELSE n)
ParseErrorText(mth, text) ==
    IF mth = "generateJson" THEN Substring(text, SnippetLength) ELSE text

AllMethods ==
    {"analyzeImage", "analyzeMultipleImages", "generateText", "generateJson"}

\* The methods a program calls: ingest.ts extracts pages, generate-
\* explanations.ts asks for explanations, the server and other users of the
\* exported class may call any.
Methods(p) ==
    CASE p = "ingest" -> {"analyzeImage"}
      [] p = "backfill" -> {"generateJson"}
      [] OTHER -> AllMethods

NoCall == <<>>

InitGatewayIdle ==
    /\ gproc = "none" /\ gpc = "exit" /\ apiKey = FALSE /\ inputRead = FALSE
    /\ client = "null" /\ constructed = 0 /\ cumulativeUsage = ZeroUsage
    /\ method = "none" /\ gwRequests = 0 /\ gwCalls = 0 /\ lastCall = NoCall
    /\ okUsage = ZeroUsage /\ respUsage = ZeroUsage

\* A process is started with or without GEMINI_API_KEY in its environment.
InitGatewayVars ==
    /\ gproc \in {"ingest", "backfill", "server"}
    /\ gpc = IF gproc = "server" THEN "running" ELSE "start"
    /\ apiKey \in BOOLEAN /\ inputRead = FALSE
    /\ client = "null" /\ constructed = 0 /\ cumulativeUsage = ZeroUsage
    /\ method = "none" /\ gwRequests = 0 /\ gwCalls = 0 /\ lastCall = NoCall
    /\ okUsage = ZeroUsage /\ respUsage = ZeroUsage

\* ingest.ts lines 75-78, generate-explanations.ts lines 157-161: a script
\* without credential exits before it reads its input.
CheckApiKey == apiKey
ScriptStart ==
    /\ gpc = "start"
    /\ gpc' = IF CheckApiKey THEN "running" ELSE "exit"
    /\ inputRead' = CheckApiKey
    /\ UNCHANGED <<gproc, apiKey, client, constructed, cumulativeUsage,
                   method, gwRequests, gwCalls, lastCall, okUsage, respUsage>>
    /\ UNCHANGED <<bfVars, appVars, exVars, rpVars, vqVars, rzVars>>

\* The environment variable is set while the process runs.
SetCredential ==
    /\ gpc = "running" /\ ~apiKey
    /\ apiKey' = TRUE
    /\ UNCHANGED <<gproc, gpc, inputRead, client, constructed,
                   cumulativeUsage, method, gwRequests, gwCalls, lastCall,
                   okUsage, respUsage>>
    /\ UNCHANGED <<bfVars, appVars, exVars, rpVars, vqVars, rzVars>>

\* Lines 293-302: getGeminiClient.  ok is FALSE when it throws.
GetGeminiClient_Fresh(c, key) ==
    [ok |-> key, client |-> IF key THEN "created" ELSE c,
     created |-> IF key THEN 1 ELSE 0]
GetGeminiClient(c, key) ==
    IF c = "null"
    THEN [ok |-> key, client |-> IF key THEN "created" ELSE c,
          created |-> IF key THEN 1 ELSE 0]
    ELSE [ok |-> TRUE, client |-> c, created |-> 0]

\* A call site obtains the client and calls a method, which sends its
\* request (lines 73-93, 130-146, 169-177, 194-206).
BeginCall(mth) ==
    /\ gpc = "running" /\ gwCalls < MaxCalls
    /\ mth \in Methods(gproc)
    /\ gwCalls' = gwCalls + 1
    /\ LET g == GetGeminiClient(client, apiKey) IN
        /\ client' = g.client
        /\ constructed' = constructed + g.created
        /\ IF g.ok
           THEN /\ gpc' = "awaiting" /\ method' = mth
                /\ gwRequests' = gwRequests + 1
                /\ lastCall' = NoCall
           ELSE /\ lastCall' = Outcome("config", <<>>, 0) @@
                                [method |-> mth, requests |-> 0, resp |-> 0]
                /\ UNCHANGED <<gpc, method, gwRequests>>
    /\ UNCHANGED <<gproc, apiKey, inputRead, cumulativeUsage, okUsage,
                   respUsage>>
    /\ UNCHANGED <<bfVars, appVars, exVars, rpVars, vqVars, rzVars>>

\* The request fails in transport: the awaited generateContent throws.
TransportError ==
    /\ gpc = "awaiting"
    /\ gpc' = "running" /\ method' = "none"
    /\ lastCall' = Outcome("transport", <<>>, 0) @@
                   [method |-> method, requests |-> 1, resp |-> 0]
    /\ UNCHANGED <<gproc, apiKey, inputRead, client, constructed,
                   cumulativeUsage, gwRequests, gwCalls, okUsage, respUsage>>
    /\ UNCHANGED <<bfVars, appVars, exVars, rpVars, vqVars, rzVars>>

\* The response arrives: the usage is added (lines 103, 155, 179, 215) and
\* then the text is parsed.
Respond(r) ==
    /\ gpc = "awaiting"
    /\ gpc' = "running" /\ method' = "none"
    /\ cumulativeUsage' = UpdateUsage(cumulativeUsage, ResponseUsage(r))
    /\ lastCall' = MethodResult(method, ResponseText(r)) @@
                   [method |-> method, requests |-> 1, resp |-> r,
                    message |->
                        IF MethodResult(method, ResponseText(r)).outcome
                               = "parse"
                        THEN ParseErrorText(method, ResponseText(r))
                        ELSE <<>>]
    /\ respUsage' =
         [promptTokens |->
              respUsage.promptTokens + ResponseUsage(r).promptTokens,
          completionTokens |->
              respUsage.completionTokens + ResponseUsage(r).completionTokens,
          totalTokens |->
              respUsage.totalTokens + ResponseUsage(r).totalTokens]
    /\ okUsage' =
         IF lastCall'.outcome # "ok" THEN okUsage
         ELSE [promptTokens |->
                   okUsage.promptTokens + ResponseUsage(r).promptTokens,
               completionTokens |->
                   okUsage.completionTokens
                       + ResponseUsage(r).completionTokens,
               totalTokens |->
                   okUsage.totalTokens + ResponseUsage(r).totalTokens]
    /\ UNCHANGED <<gproc, apiKey, inputRead, client, constructed,
                   gwRequests, gwCalls>>
    /\ UNCHANGED <<bfVars, appVars, exVars, rpVars, vqVars, rzVars>>

\* Lines 53-59: resetUsage.
ResetUsage ==
    /\ gpc = "running" /\ client = "created"
    /\ cumulativeUsage # ZeroUsage
    /\ cumulativeUsage' = ZeroUsage
    /\ okUsage' = ZeroUsage /\ respUsage' = ZeroUsage
    /\ UNCHANGED <<gproc, gpc, apiKey, inputRead, client, constructed,
                   method, gwRequests, gwCalls, lastCall>>
    /\ UNCHANGED <<bfVars, appVars, exVars, rpVars, vqVars, rzVars>>

NextGateway ==
    \/ ScriptStart
    \/ SetCredential
    \/ \E mth \in AllMethods : BeginCall(mth)
    \/ TransportError
    \/ \E r \in Responses : Respond(r)
    \/ ResetUsage

(***************************************************************************)
(* validateQuestions: question-extractor.ts, pdf-processor.ts 270-290.     *)
(***************************************************************************)
\* A question as the model returned it.  choices is [present, length]: the
\* list may be missing.  correctChoice is Null, an index, or NegativeIndex.
NegativeIndex == -2
VQuestion(text, choices, cc) ==
    [questionText |-> text, choices |-> choices, correctChoice |-> cc]
MissingChoices == [present |-> FALSE, length |-> 0]
ChoicesOf(n) == [present |-> TRUE, length |-> n]
VQuestions ==
    { VQuestion(text, choices, cc) :
        text \in {<<>>, <<SP>>, <<"a">>},
        choices \in {MissingChoices} \cup {ChoicesOf(n) : n \in 0..MaxChoices},
        cc \in {Null, NegativeIndex} \cup 0..MaxChoices }
\* The questions around the varied one: a well-formed one and one without
\* text.
Fillers ==
    { VQuestion(<<"a">>, ChoicesOf(2), 1), VQuestion(<<>>, ChoicesOf(2), Null) }
FillerLists == UNION { [1..n -> Fillers] : n \in 0..MaxAround }
VInputs == { pre \o <<q>> \o post :
               pre \in FillerLists, q \in VQuestions, post \in FillerLists }

ErrorEntry(idx, msg) == [question |-> idx, message |-> msg]

\* Lines 274-286: the checks of one question.  threw is TRUE when the
\* evaluation of q.choices.length raises a TypeError.
ValidateOne(q, idx) ==
    LET e1 == IF q.questionText = <<>> \/ Trim(q.questionText) = <<>>
              THEN <<ErrorEntry(idx, "Empty question text")>> ELSE <<>>
        e2 == IF ~q.choices.present \/ q.choices.length < 2
              THEN <<ErrorEntry(idx, "Less than 2 choices")>> ELSE <<>>
        e3 == <<ErrorEntry(idx, "Invalid correct choice index")>>
    IN IF q.correctChoice = Null
       THEN [threw |-> FALSE, errors |-> e1 \o e2]
       ELSE IF q.correctChoice < 0
       THEN [threw |-> FALSE, errors |-> e1 \o e2 \o e3]
       ELSE IF ~q.choices.present
       THEN [threw |-> TRUE, errors |-> <<>>]
       ELSE IF q.correctChoice >= q.choices.length
       THEN [threw |-> FALSE, errors |-> e1 \o e2 \o e3]
       ELSE [threw |-> FALSE, errors |-> e1 \o e2]

\* Lines 271-289: forEach over the questions.
RECURSIVE ValidateFrom(_, _, _)
ValidateFrom(qs, idx, errs) ==
    IF idx > Len(qs) THEN [threw |-> FALSE, errors |-> errs]
    ELSE LET r == ValidateOne(qs[idx], idx) IN
         IF r.threw THEN [threw |-> TRUE, errors |-> <<>>]
         ELSE ValidateFrom(qs, idx + 1, errs \o r.errors)

NoValidation == <<>>

InitValidateIdle == vq = <<>> /\ vres = NoValidation
InitValidateVars == vq \in VInputs /\ vres = NoValidation

\* validateQuestions(questions) returns or throws.
ValidateQuestions ==
    /\ vq # <<>> /\ vres = NoValidation
    /\ vres' = ValidateFrom(vq, 1, <<>>) @@ [questions |-> vq]
    /\ UNCHANGED <<vq, bfVars, appVars, exVars, rpVars, gwVars, rzVars>>

NextValidate == ValidateQuestions

(***************************************************************************)
(* The rasterizer: convertPdfPagesToImages (pdf-processor.ts 21-56) and    *)
(* convertPdfBufferToImages (77-109) applied to one request.  An image is  *)
(* identified by its pageNumber.                                           *)
(***************************************************************************)
\* The documents: a file that cannot be read or parsed, or a PDF of 1 to
\* MaxPage pages.
Documents == [readable : BOOLEAN, pages : 1..MaxPage]

\* The requests: up to MaxRequest page numbers in any order, with
\* duplicates, from 0 to one more than the largest document has.
Requests == UNION { [1..n -> 0..(MaxPage + 1)] : n \in 0..MaxRequest }

\* Lines 28 and 84: new Set(pageNumbers).
PageSetOf_First(pageNumbers) ==
    IF pageNumbers = <<>> THEN {} ELSE {pageNumbers[1]}
PageSetOf(pageNumbers) == { pageNumbers[i] : i \in 1..Len(pageNumbers) }

\* Lines 53 and 105: images.sort((a, b) => a.pageNumber - b.pageNumber),
\* a stable sort, as an insertion sort.
RECURSIVE InsertByPage(_, _)
InsertByPage(sorted, image) ==
    IF sorted = <<>> THEN <<image>>
    ELSE IF image < Head(sorted) THEN <<image>> \o sorted
    ELSE <<Head(sorted)>> \o InsertByPage(Tail(sorted), image)

RECURSIVE SortByPage(_)
SortByPage(images) ==
    IF images = <<>> THEN <<>>
    ELSE InsertByPage(SortByPage(SubSeq(images, 1, Len(images) - 1)),
                      images[Len(images)])

\* Lines 82-107: the buffer is parsed, its pages are walked, the requested
\* ones are kept, the images are sorted; an error of the parser is thrown
\* again (lines 100-103) and nothing is returned.
ConvertPdfBufferToImages(doc, pageNumbers) ==
    IF ~doc.readable THEN [threw |-> TRUE, images |-> <<>>]
    ELSE [threw |-> FALSE,
          images |-> SortByPage(ConvertPdfPagesToImages(
                         doc.pages, PageSetOf(pageNumbers)))]

NoImages == <<>>

InitRasterIdle ==
    /\ rzDoc = [readable |-> FALSE, pages |-> 1]
    /\ rzRequest = <<>> /\ rzres = NoImages

InitRasterVars ==
    /\ rzDoc \in Documents /\ rzRequest \in Requests /\ rzres = NoImages

\* convertPdfPagesToImages(pdfPath, pageNumbers) returns or throws: the
\* file is read (line 31) and then handled as the buffer is.
RasterizePath ==
    /\ rzres = NoImages
    /\ rzres' = ConvertPdfBufferToImages(rzDoc, rzRequest)
    /\ UNCHANGED <<rzDoc, rzRequest, bfVars, appVars, exVars, rpVars, gwVars,
                   vqVars>>

\* convertPdfBufferToImages(pdfBuffer, pageNumbers) returns or throws.
RasterizeBuffer ==
    /\ rzres = NoImages
    /\ rzres' = ConvertPdfBufferToImages(rzDoc, rzRequest)
    /\ UNCHANGED <<rzDoc, rzRequest, bfVars, appVars, exVars, rpVars, gwVars,
                   vqVars>>

NextRaster == RasterizePath \/ RasterizeBuffer

(***************************************************************************)
(* The database (db/schema.ts) and the scripts that write to it, seen as   *)
(* the database sees them: one statement at a time.                        *)
(***************************************************************************)
NoScript == <<>>
Idle == <<>>

\* The questions a script is about to store: of the result of an
\* extraction (ingest.ts) or of a paper file (import.ts).
StoreFiles ==
    UNION { { [i \in 1..n |-> Question(f[i][1], f[i][2], i - 1)] :
                f \in [1..n -> CommonKinds] } : n \in 0..MaxStored }

\* ingest.ts lines 186-193, import.ts lines 127-134: the rows of the
\* questions, with the ids the serial column gives after lastId.
StoreRows(prog, paperId, lastId, qs) ==
    { [id |-> lastId + i, paperId |-> paperId,
       correctChoice |-> OrZero(qs[i].correctChoice),
       explanation |-> IF prog = "import" /\ Truthy(qs[i].explanation)
                       THEN qs[i].explanation ELSE NoExplanation,
       orderIndex |-> IF prog = "import" /\ qs[i].orderIndex # Null
                      THEN qs[i].orderIndex ELSE i - 1] :
      i \in 1..Len(qs) }

\* schema.ts lines 511-513 and 525-527: onDelete cascade.  The rows left
\* in a table when paper id is deleted.
Cascade(rows, id) == { r \in rows : r.paperId # id }

\* ingest.ts without --dry-run has its result, or import.ts has read and
\* accepted its file: the script is about to write.
StoreStart(prog, qs) ==
    /\ script = NoScript /\ serial.papers < MaxPapers
    /\ script' = [prog |-> prog, pc |-> "insert_paper", qs |-> qs,
                  paperId |-> 0]
    /\ UNCHANGED <<cliVars, odres, dbVars, handlers, histVars>>
    /\ UNCHANGED <<bfVars, exVars, libVars>>

\* ingest.ts lines 175-182, import.ts lines 107-114: the paper row.  With
\* no questions the script ends here.
StoreInsertPaper ==
    /\ script # NoScript /\ script.pc = "insert_paper"
    /\ LET id == serial.papers + 1 IN
        /\ papers' = papers \cup
               {[id |-> id, questionCount |-> Len(script.qs)]}
        /\ serial' = [serial EXCEPT !.papers = id]
        /\ script' = IF Len(script.qs) > 0
                      THEN [script EXCEPT !.pc = "insert_questions",
                                          !.paperId = id]
                      ELSE NoScript
    /\ UNCHANGED <<cliVars, odres, questions, testSessions, handlers,
                   histVars>>
    /\ UNCHANGED <<bfVars, exVars, libVars>>

\* ingest.ts lines 184-195, import.ts lines 121-139: the question rows.
StoreInsertQuestions ==
    /\ script # NoScript /\ script.pc = "insert_questions"
    /\ questions' = questions \cup
           StoreRows(script.prog, script.paperId, serial.questions, script.qs)
    /\ serial' = [serial EXCEPT !.questions = @ + Len(script.qs)]
    /\ origin' = origin \o
           [i \in 1..Len(script.qs) |-> script.qs[i].correctChoice]
    /\ script' = NoScript
    /\ UNCHANGED <<cliVars, odres, papers, testSessions, handlers,
                   modelCalls, writes>>
    /\ UNCHANGED <<bfVars, exVars, libVars>>

\* delete-paper.ts lines 20-28: the paper is looked up; the script goes on
\* when it is there.
DeleteStart(id) ==
    /\ script = NoScript
    /\ \E p \in papers : p.id = id
    /\ script' = [prog |-> "delete", pc |-> "delete_sessions", qs |-> <<>>,
                  paperId |-> id]
    /\ UNCHANGED <<cliVars, odres, dbVars, handlers, histVars>>
    /\ UNCHANGED <<bfVars, exVars, libVars>>

\* delete-paper.ts lines 38-41.
DeleteSessions ==
    /\ script # NoScript /\ script.pc = "delete_sessions"
    /\ testSessions' = { r \in testSessions : r.paperId # script.paperId }
    /\ script' = [script EXCEPT !.pc = "delete_questions"]
    /\ UNCHANGED <<cliVars, odres, papers, questions, serial, handlers,
                   histVars>>
    /\ UNCHANGED <<bfVars, exVars, libVars>>

\* delete-paper.ts lines 45-48.
DeleteQuestions ==
    /\ script # NoScript /\ script.pc = "delete_questions"
    /\ questions' = { r \in questions : r.paperId # script.paperId }
    /\ script' = [script EXCEPT !.pc = "delete_paper"]
    /\ UNCHANGED <<cliVars, odres, papers, testSessions, serial, handlers,
                   histVars>>
    /\ UNCHANGED <<bfVars, exVars, libVars>>

\* delete-paper.ts line 52; the rows that still refer to the paper go with
\* it.
DeletePaper ==
    /\ script # NoScript /\ script.pc = "delete_paper"
    /\ papers' = { p \in papers : p.id # script.paperId }
    /\ questions' = Cascade(questions, script.paperId)
    /\ testSessions' = Cascade(testSessions, script.paperId)
    /\ script' = NoScript
    /\ UNCHANGED <<cliVars, odres, serial, handlers, histVars>>
    /\ UNCHANGED <<bfVars, exVars, libVars>>

\* A statement fails, or the process is killed between two statements;
\* nothing is undone (no script opens a transaction).
ScriptKilled ==
    /\ script # NoScript
    /\ script' = NoScript
    /\ UNCHANGED <<cliVars, odres, dbVars, handlers, histVars>>
    /\ UNCHANGED <<bfVars, exVars, libVars>>

\* routes/paper.tsx, action, lines 69-85: a session is started on a paper.
\* For a paper that is not there the handler throws before or at the
\* insert (line 73, or the foreign key).
NoAnswers == <<>>
StartSession(paperId) ==
    /\ serial.testSessions < MaxSessions
    /\ \E p \in papers : p.id = paperId
    /\ LET id == serial.testSessions + 1 IN
        /\ testSessions' = testSessions \cup
               {[id |-> id, paperId |-> paperId, status |-> "in_progress",
                 answers |-> NoAnswers, score |-> Null]}
        /\ serial' = [serial EXCEPT !.testSessions = id]
    /\ UNCHANGED <<cliVars, odres, papers, questions, script, handlers,
                   histVars>>
    /\ UNCHANGED <<bfVars, exVars, libVars>>

(***************************************************************************)
(* routes/api.generate-explanation.tsx: the on-demand explanation of one   *)
(* question.  A handler gives way to the others at each await.             *)
(***************************************************************************)
\* What the model can return as data.explanation.
ModelTexts == {"gen1", "gen2", EmptyExplanation}

Response(route, id, status, cached, explanation) ==
    [route |-> route, pc |-> "done", id |-> id, status |-> status,
     cached |-> cached, explanation |-> explanation]

\* Line 31: if (question.explanation).
FindsExplanation(q) == Truthy(q.explanation)

\* Lines 20-40: the question is read; without it the answer is 404, with
\* an explanation the answer is the stored text, otherwise the model is
\* called.
ExplainSelect(h, questionId) ==
    /\ handlers[h] = Idle
    /\ LET found == { q \in questions : q.id = questionId } IN
        IF found = {}
        THEN /\ handlers' = [handlers EXCEPT ![h] =
                    Response("explain", questionId, 404, FALSE,
                             NoExplanation)]
             /\ UNCHANGED modelCalls
        ELSE LET question == CHOOSE q \in found : TRUE IN
             IF FindsExplanation(question)
             THEN /\ handlers' = [handlers EXCEPT ![h] =
                         Response("explain", questionId, 200, TRUE,
                                  question.explanation)]
                  /\ UNCHANGED modelCalls
             ELSE /\ handlers' = [handlers EXCEPT ![h] =
                         [route |-> "explain", pc |-> "generating",
                          id |-> questionId]]
                  /\ modelCalls' = Append(modelCalls, questionId)
    /\ UNCHANGED <<cliVars, odres, dbVars, script, origin, writes>>
    /\ UNCHANGED <<bfVars, exVars, libVars>>

\* Line 40 returns: generateExplanation gives the text of the model.
ExplainGenerated(h, text) ==
    /\ handlers[h] # Idle /\ handlers[h].route = "explain"
    /\ handlers[h].pc = "generating"
    /\ handlers' = [handlers EXCEPT ![h] =
           [route |-> "explain", pc |-> "updating", id |-> handlers[h].id,
            explanation |-> text]]
    /\ UNCHANGED <<cliVars, odres, dbVars, script, histVars>>
    /\ UNCHANGED <<bfVars, exVars, libVars>>

\* Line 40 throws; lines 54-63 answer 500.
ExplainFails(h) ==
    /\ handlers[h] # Idle /\ handlers[h].route = "explain"
    /\ handlers[h].pc = "generating"
    /\ handlers' = [handlers EXCEPT ![h] =
           Response("explain", handlers[h].id, 500, FALSE, NoExplanation)]
    /\ UNCHANGED <<cliVars, odres, dbVars, script, histVars>>
    /\ UNCHANGED <<bfVars, exVars, libVars>>

\* Lines 43-52: the text is stored in the row of the question and returned.
ExplainUpdate(h) ==
    /\ handlers[h] # Idle /\ handlers[h].route = "explain"
    /\ handlers[h].pc = "updating"
    /\ LET id == handlers[h].id
           text == handlers[h].explanation
           found == { q \in questions : q.id = id } IN
        /\ questions' = { IF q.id = id THEN [q EXCEPT !.explanation = text]
                          ELSE q : q \in questions }
        /\ writes' = writes \o
               [i \in 1..Cardinality(found) |->
                   <<id, (CHOOSE q \in found : TRUE).explanation, text>>]
        /\ handlers' = [handlers EXCEPT ![h] =
               Response("explain", id, 200, FALSE, text)]
    /\ UNCHANGED <<cliVars, odres, papers, testSessions, serial, script,
                   origin, modelCalls>>
    /\ UNCHANGED <<bfVars, exVars, libVars>>

\* Papers are put into the database by ingest.ts and import.ts, and the
\* server answers requests for explanations.
NextEndpoint ==
    \/ \E prog \in {"ingest", "import"}, qs \in StoreFiles :
         StoreStart(prog, qs)
    \/ StoreInsertPaper
    \/ StoreInsertQuestions
    \/ \E h \in 1..MaxHandlers, id \in 1..MaxStored : ExplainSelect(h, id)
    \/ \E h \in 1..MaxHandlers, text \in ModelTexts :
         ExplainGenerated(h, text)
    \/ \E h \in 1..MaxHandlers : ExplainFails(h)
    \/ \E h \in 1..MaxHandlers : ExplainUpdate(h)

(***************************************************************************)
(* routes/test.tsx, action: the answers of a test session are saved and    *)
(* submitted.                                                              *)
(***************************************************************************)
\* The answers a request carries: a choice for some of the questions, by
\* question id.
AnswerMaps == UNION { [ids -> 0..1] : ids \in SUBSET (1..MaxStored) }

\* Lines 86-91: the questions whose answer is the correct choice.
Score(questionList, answers) ==
    Cardinality({ q \in questionList :
                    /\ q.id \in DOMAIN answers
                    /\ answers[q.id] = q.correctChoice })

\* Lines 45-56: the session is read; without it the answer is 404.
TestSelect(h, actionType, sessionId, answers) ==
    /\ handlers[h] = Idle
    /\ LET found == { r \in testSessions : r.id = sessionId } IN
        handlers' = [handlers EXCEPT ![h] =
            IF found = {}
            THEN Response("test", sessionId, 404, FALSE, NoExplanation)
            ELSE [route |-> "test", pc |-> actionType, id |-> sessionId,
                  answers |-> answers,
                  paperId |-> (CHOOSE r \in found : TRUE).paperId]]
    /\ UNCHANGED <<cliVars, odres, dbVars, script, histVars>>
    /\ UNCHANGED <<bfVars, exVars, libVars>>

\* Lines 58-75: "save" stores the answers of the request.
SaveUpdate(h) ==
    /\ handlers[h] # Idle /\ handlers[h].route = "test"
    /\ handlers[h].pc = "save"
    /\ testSessions' =
           { IF r.id = handlers[h].id
             THEN [r EXCEPT !.answers = handlers[h].answers] ELSE r :
             r \in testSessions }
    /\ handlers' = [handlers EXCEPT ![h] =
           Response("test", handlers[h].id, 200, FALSE, NoExplanation)]
    /\ UNCHANGED <<cliVars, odres, papers, questions, serial, script,
                   histVars>>
    /\ UNCHANGED <<bfVars, exVars, libVars>>

\* Lines 77-91: "submit" reads the questions of the paper and counts the
\* correct answers of the request.
SubmitSelect(h) ==
    /\ handlers[h] # Idle /\ handlers[h].route = "test"
    /\ handlers[h].pc = "submit"
    /\ handlers' = [handlers EXCEPT ![h] =
           [route |-> "test", pc |-> "submit_update", id |-> handlers[h].id,
            answers |-> handlers[h].answers,
            score |-> Score({ q \in questions :
                                q.paperId = handlers[h].paperId },
                            handlers[h].answers)]]
    /\ UNCHANGED <<cliVars, odres, dbVars, script, histVars>>
    /\ UNCHANGED <<bfVars, exVars, libVars>>

\* Lines 93-103: the session is completed with the answers and the score.
SubmitUpdate(h) ==
    /\ handlers[h] # Idle /\ handlers[h].route = "test"
    /\ handlers[h].pc = "submit_update"
    /\ testSessions' =
           { IF r.id = handlers[h].id
             THEN [r EXCEPT !.status = "completed",
                            !.answers = handlers[h].answers,
                            !.score = handlers[h].score]
             ELSE r : r \in testSessions }
    /\ handlers' = [handlers EXCEPT ![h] =
           Response("test", handlers[h].id, 200, FALSE, NoExplanation)]
    /\ UNCHANGED <<cliVars, odres, papers, questions, serial, script,
                   histVars>>
    /\ UNCHANGED <<bfVars, exVars, libVars>>

\* The papers of the sessions: every question has its answer, and no
\* explanation (neither is read by the handlers above).
AnsweredFiles ==
    { qs \in StoreFiles :
        \A i \in 1..Len(qs) :
            qs[i].correctChoice # Null /\ qs[i].explanation = NoExplanation }

\* Papers are put into the database, sessions are started on the papers
\* that are complete, and the server takes the save and submit requests
\* in any order.
NextSession ==
    \/ \E qs \in AnsweredFiles : StoreStart("ingest", qs)
    \/ StoreInsertPaper
    \/ StoreInsertQuestions
    \/ \E id \in 1..MaxPapers : script = NoScript /\ StartSession(id)
    \/ \E h \in 1..MaxHandlers, actionType \in {"save", "submit"},
          id \in 1..MaxSessions, answers \in AnswerMaps :
         TestSelect(h, actionType, id, answers)
    \/ \E h \in 1..MaxHandlers : SaveUpdate(h)
    \/ \E h \in 1..MaxHandlers : SubmitSelect(h)
    \/ \E h \in 1..MaxHandlers : SubmitUpdate(h)

\* The scripts, run one after the other, and the server starting sessions.
NextStore ==
    \/ \E prog \in {"ingest", "import"}, qs \in StoreFiles :
         StoreStart(prog, qs)
    \/ StoreInsertPaper
    \/ StoreInsertQuestions
    \/ \E id \in 1..MaxPapers : DeleteStart(id)
    \/ DeleteSessions
    \/ DeleteQuestions
    \/ DeletePaper
    \/ ScriptKilled
    \/ \E id \in 1..MaxPapers : StartSession(id)

(***************************************************************************)
(* Specifications.                                                         *)
(***************************************************************************)
InitBackfillIdle ==
    /\ inputFile = <<>> /\ outputFile = AbsentFile /\ runs = 0
    /\ pc = "idle" /\ NoProcess

\* The command line, the database and the processes that use it, before
\* anything has run: a named paper, empty tables.
InitCli == paperName = "paper" /\ paperSource = "book"
InitDbEmpty ==
    /\ papers = {} /\ questions = {} /\ testSessions = {}
    /\ serial = [papers |-> 0, questions |-> 0, testSessions |-> 0]
    /\ origin = <<>> /\ modelCalls = <<>> /\ writes = <<>>
InitAppIdle ==
    /\ InitCli /\ odres = NoRepair /\ InitDbEmpty
    /\ script = NoScript /\ handlers = <<>>

InitLibIdle ==
    /\ InitRepairIdle /\ InitGatewayIdle /\ InitValidateIdle
    /\ InitRasterIdle /\ InitAppIdle

InitBackfill == InitBackfillVars /\ InitExtractVars /\ InitLibIdle
\* The gateway of a process that runs an extraction: its cumulative usage
\* is what earlier calls of the process have left.
PriorUsages == {ZeroUsage, UsageOf(<<0>>)}
InitExtractGateway ==
    /\ gproc = "none" /\ gpc = "exit" /\ apiKey = FALSE /\ inputRead = FALSE
    /\ client = "null" /\ constructed = 0 /\ cumulativeUsage \in PriorUsages
    /\ method = "none" /\ gwRequests = 0 /\ gwCalls = 0 /\ lastCall = NoCall
    /\ okUsage = ZeroUsage /\ respUsage = ZeroUsage

InitExtract == InitExtractVars /\ InitBackfillIdle /\ InitLibIdle
\* --name and --source are required options; commander takes any string,
\* the empty one included.
CommandLines == { <<"paper", "book">>, <<"", "book">>, <<"paper", "">> }
InitIngest ==
    /\ InitExtractVars /\ InitBackfillIdle
    /\ InitRepairIdle /\ InitGatewayIdle /\ InitValidateIdle
    /\ InitRasterIdle
    /\ \E cl \in CommandLines : paperName = cl[1] /\ paperSource = cl[2]
    /\ odres = NoRepair /\ InitDbEmpty
    /\ script = NoScript /\ handlers = <<>>
InitDriver ==
    /\ InitExtractVars /\ InitBackfillIdle
    /\ InitRepairIdle /\ InitExtractGateway /\ InitValidateIdle
    /\ InitRasterIdle
    /\ InitAppIdle
InitRepair ==
    /\ InitRepairVars /\ InitBackfillIdle /\ InitExtractVars
    /\ InitGatewayIdle /\ InitValidateIdle /\ InitRasterIdle
    /\ InitAppIdle
InitGateway ==
    /\ InitGatewayVars /\ InitBackfillIdle /\ InitExtractVars
    /\ InitRepairIdle /\ InitValidateIdle /\ InitRasterIdle
    /\ InitAppIdle
InitValidate ==
    /\ InitValidateVars /\ InitBackfillIdle /\ InitExtractVars
    /\ InitRepairIdle /\ InitGatewayIdle /\ InitRasterIdle
    /\ InitAppIdle
\* The server is up with its handlers idle; the database is empty.
InitServer ==
    /\ InitBackfillIdle /\ InitExtractVars
    /\ InitRepairIdle /\ InitGatewayIdle /\ InitValidateIdle
    /\ InitRasterIdle
    /\ InitCli /\ odres = NoRepair /\ InitDbEmpty
    /\ script = NoScript /\ handlers = [h \in 1..MaxHandlers |-> Idle]
InitRaster ==
    /\ InitRasterVars /\ InitBackfillIdle /\ InitExtractVars
    /\ InitRepairIdle /\ InitGatewayIdle /\ InitValidateIdle

    /\ InitAppIdle
SpecBackfill == InitBackfill /\ [][NextBackfill]_vars
SpecRetry == InitBackfill /\ [][NextRetry]_vars /\ FairRetry
SpecExtract == InitExtract /\ [][NextExtract]_vars
SpecDriver == InitDriver /\ [][NextDriver]_vars
SpecIngest == InitIngest /\ [][NextIngest]_vars
SpecRepair == InitRepair /\ [][NextRepair]_vars
SpecGateway == InitGateway /\ [][NextGateway]_vars
SpecValidate == InitValidate /\ [][NextValidate]_vars
SpecRaster == InitRaster /\ [][NextRaster]_vars
SpecStore == InitServer /\ [][NextStore]_vars
SpecEndpoint == InitServer /\ [][NextEndpoint]_vars
SpecSession == InitServer /\ [][NextSession]_vars

(***************************************************************************)
(* Properties of the backfill driver (checked under SpecBackfill).         *)
(***************************************************************************)
Running == pc \in {"loop", "calling", "checkpoint", "checkpoint_write",
                   "final", "final_write"}

\* The indices that have been passed to generateExplanation.
Called == { calls[k] : k \in 1..Len(calls) }
\* The indices of the pending list.
Pending == { questionsToProcess[k] : k \in 1..Len(questionsToProcess) }

\* C1: backfill fails open.  Whatever subset of the pending questions has a
\* failing gateway call, the error counter equals the number of failed
\* questions, the run goes on to the next question, and when it has reached
\* its end every pending question was attempted and each one that did not
\* fail carries the newly returned explanation in memory and in the output.
C1_BackfillFailsOpen ==
    /\ errors = Cardinality(failed)
    /\ pc = "done" =>
        /\ Called = Pending
        /\ outputFile = CompleteFile(data)
        /\ \A idx \in Pending \ failed :
             outputFile.questions[idx].explanation = Generated(runs)

\* A run that ended after a failure was followed by a success.
C1_Witness ==
    /\ pc = "done" /\ Len(calls) >= 2
    /\ calls[1] \in failed /\ calls[2] \notin failed

\* C3: checkpoint cadence.  The completed saves of a run are exactly those
\* after the B-th, 2B-th, ... success, each made before the next call, plus
\* the final one: floor(S / B) + 1 saves for S successes.  A save is pending
\* only right after a success whose count is a multiple of B.
C3_CheckpointCadence ==
    (Running \/ pc = "done") =>
        LET m == processed \div batchSize
            saving == pc \in {"checkpoint", "checkpoint_write"}
            inLoop == [k \in 1..(IF saving THEN m - 1 ELSE m) |->
                          k * batchSize]
        IN /\ saving => /\ processed > 0
                        /\ processed % batchSize = 0
                        /\ calls[Len(calls)] \notin failed
           /\ pc # "done" => writeLog = inLoop
           /\ pc = "done" =>
                /\ writeLog = inLoop \o <<processed>>
                /\ Len(writeLog) = (processed \div batchSize) + 1

\* A finished run with batch size 2, a failure, and two successes: one save
\* after the second success and the final one.
C3_Witness ==
    /\ pc = "done" /\ batchSize = 2 /\ processed = 2 /\ errors = 1
    /\ writeLog = <<2, 2>>

\* C4 as stated: every run that reaches its end, with an empty pending set
\* too, has written the current paper data to the output path.
C4_FinalWriteEveryRun ==
    pc \in {"done", "exited"} =>
        /\ writeLog # <<>>
        /\ outputFile = CompleteFile(data)

\* C4 amended: a run with a non-empty pending set that reaches its end has
\* written the current paper data as its last save; a run whose pending set
\* is empty exits without any save.
C4_FinalWriteWhenPending ==
    /\ pc = "done" =>
        /\ writeLog # <<>>
        /\ writeLog[Len(writeLog)] = processed
        /\ outputFile = CompleteFile(data)
    /\ pc = "exited" =>
        /\ questionsToProcess = <<>>
        /\ writeLog = <<>>
        /\ outputFile = startFile

\* A finished run whose success count is no multiple of the batch size.
C4_Witness ==
    pc = "done" /\ processed % batchSize # 0

\* C5: at every point the file at the output path is a complete snapshot:
\* never a partly written file, and once the run has saved, the data the
\* most recent save captured.
C5_CheckpointAlwaysComplete ==
    /\ outputFile.kind # "partial"
    /\ (Running \/ pc = "done") /\ writeLog # <<>> =>
        /\ outputFile.kind = "complete"
        /\ \A i \in 1..Len(data) :
             outputFile.questions[i].explanation
                 \in {loaded[i].explanation, data[i].explanation}

\* C6: no gateway call is issued for a question whose correctChoice is
\* null, and its record in memory and in every save equals the loaded one.
C6_NullChoiceNeverSent ==
    /\ \A idx \in Called : loaded[idx].correctChoice # Null
    /\ \A i \in 1..Len(loaded) :
         loaded[i].correctChoice = Null =>
            /\ data[i] = loaded[i]
            /\ (writeLog # <<>> /\ outputFile.kind = "complete") =>
                   outputFile.questions[i] = loaded[i]

\* A finished run without --skip-existing over data holding an unanswered
\* question that carries an explanation.
C6_Witness ==
    /\ pc = "done" /\ ~skipExisting
    /\ \E i \in 1..Len(loaded) :
         loaded[i].correctChoice = Null /\ Truthy(loaded[i].explanation)

\* The questions of the checkpoint that still need an explanation: answered,
\* and with no explanation text (absent or the empty string).
CheckpointPending ==
    { i \in 1..Len(startFile.questions) :
        /\ startFile.questions[i].correctChoice # Null
        /\ ~Truthy(startFile.questions[i].explanation) }

\* C7: with resume and skipExisting over an existing checkpoint, calls are
\* issued only for the answered questions without explanation in the
\* checkpoint, each at most once, and at the end of the run for all of them.
C7_ResumeCallsOnlyPending ==
    (resume /\ skipExisting /\ startFile.kind = "complete") =>
        /\ Called \subseteq CheckpointPending
        /\ Cardinality(Called) = Len(calls)
        /\ Pending = CheckpointPending
        /\ pc = "done" => Called = CheckpointPending

\* A finished resumed run over a checkpoint of run 1 that already held a
\* generated explanation, and that still had calls to make.
C7_Witness ==
    /\ pc = "done" /\ resume /\ skipExisting
    /\ startFile.kind = "complete"
    /\ \E i \in 1..Len(loaded) : loaded[i].explanation = "gen1"
    /\ calls # <<>>

\* C8 as stated: a resumed run starts from the checkpoint and every
\* explanation of the checkpoint is unchanged in the final output, for
\* every value of skipExisting.
C8_ResumeKeepsEveryExplanation ==
    (resume /\ startFile.kind = "complete") =>
        /\ (Running \/ pc \in {"done", "exited"}) =>
               loaded = startFile.questions
        /\ pc = "done" =>
             \A i \in 1..Len(startFile.questions) :
                Truthy(startFile.questions[i].explanation) =>
                    outputFile.questions[i].explanation
                        = startFile.questions[i].explanation

\* C8 amended: a resumed run starts from the checkpoint; with skipExisting
\* every non-empty explanation of the checkpoint is unchanged in the final
\* output; without it an explanation is unchanged for a question that is
\* unanswered or whose call failed, and replaced by the newly returned one
\* for an answered question whose call succeeded.
C8_ResumeKeepsSkippedExplanations ==
    (resume /\ startFile.kind = "complete") =>
        /\ (Running \/ pc \in {"done", "exited"}) =>
               loaded = startFile.questions
        /\ pc = "done" =>
             \A i \in 1..Len(startFile.questions) :
                Truthy(startFile.questions[i].explanation) =>
                    outputFile.questions[i].explanation =
                        IF \/ skipExisting
                           \/ startFile.questions[i].correctChoice = Null
                           \/ i \in failed
                        THEN startFile.questions[i].explanation
                        ELSE Generated(runs)

\* A finished resumed run with skipExisting over a checkpoint that held an
\* explanation generated by run 1, during which another one was generated.
C8_Witness ==
    /\ pc = "done" /\ resume /\ skipExisting
    /\ startFile.kind = "complete"
    /\ \E i \in 1..Len(loaded) : loaded[i].explanation = "gen1"
    /\ processed >= 1

(***************************************************************************)
(* Properties of the extraction driver (checked under SpecExtract).        *)
(***************************************************************************)
HasReturned ==
    xpc \in {"returned", "paper_inserted", "done", "import_paper", "imported"}

\* The pages whose gateway call failed.
FailedPages ==
    { gatewayCalls[k][1] : k \in { j \in 1..Len(gatewayCalls) :
                                       gatewayCalls[j][2] = CallFailed } }

\* C2: extraction fails closed.  Once the gateway call of a page has failed
\* there is no extraction result, no intermediate file and no paper or
\* question row; and a file or row is written only after the loop has passed
\* the last page of the range and every page with an image was extracted.
C2_ExtractionFailsClosed ==
    /\ FailedPages # {} =>
        /\ result = NoResult /\ savedFile = NoResult
        /\ dbPapers = <<>> /\ dbQuestions = <<>>
    /\ (savedFile # NoResult \/ dbPapers # <<>> \/ dbQuestions # <<>>) =>
        /\ result # NoResult
        /\ pageNum > endPage
        /\ \A p \in startPage..endPage :
             p <= docPages =>
                \E k \in 1..Len(gatewayCalls) :
                    gatewayCalls[k][1] = p /\ gatewayCalls[k][2] # CallFailed

\* An ingest run whose second page failed after the first was extracted.
C2_Witness ==
    /\ caller = "ingest" /\ xpc = "failed"
    /\ Len(gatewayCalls) = 2
    /\ gatewayCalls[1][2] # CallFailed /\ gatewayCalls[2][2] = CallFailed

\* The responses of the successful calls, flattened: <<page, position>> of
\* every question the model returned, in call order.
RECURSIVE Returned(_)
Returned(cs) ==
    IF cs = <<>> THEN <<>>
    ELSE LET c == cs[Len(cs)] IN
         Returned(SubSeq(cs, 1, Len(cs) - 1))
             \o [k \in 1..(IF c[2] = CallFailed THEN 0 ELSE c[2]) |->
                    <<c[1], k>>]

\* C9: extraction renumbering.  The result lists the questions in ascending
\* page order and, within a page, in the order of the response; the i-th
\* question has number i, so the numbers are 1..N with N the sum of the
\* per-page counts.
C9_ExtractionRenumbering ==
    HasReturned =>
        LET qs == result.questions
            flat == Returned(gatewayCalls)
        IN /\ Len(qs) = Len(flat)
           /\ \A i \in 1..Len(qs) :
                /\ qs[i].questionText = flat[i]
                /\ qs[i].pageNumber = flat[i][1]
                /\ qs[i].questionNumber = i
           /\ \A i, j \in 1..Len(qs) :
                i < j => \/ qs[i].pageNumber < qs[j].pageNumber
                         \/ /\ qs[i].pageNumber = qs[j].pageNumber
                            /\ qs[i].questionText[2] < qs[j].questionText[2]

\* The range 1..3 with 2, 0 and 1 questions on its pages.
C9_Witness ==
    /\ xpc = "returned"
    /\ gatewayCalls = << <<1, 2>>, <<2, 0>>, <<3, 1>> >>
    /\ Len(result.questions) = 3

\* C10: in a completed run over an N-page range with a progress callback,
\* the callback was invoked exactly N times, with first argument 1, 2, .., N
\* in this order and second argument N.
C10_ProgressComplete ==
    (HasReturned /\ HasCallback(caller)) =>
        LET n == endPage - startPage + 1 IN
        /\ Len(progressLog) = n
        /\ \A k \in 1..Len(progressLog) :
             progressLog[k][1] = k /\ progressLog[k][2] = n

\* The pages of the range that yielded no image.
NoImagePages ==
    { p \in startPage..endPage :
        ConvertPdfPagesToImages(docPages, {p}) = <<>> }

\* The pages for which the gateway was called.
CalledPages == { gatewayCalls[k][1] : k \in 1..Len(gatewayCalls) }

\* C11: a page that yields no image does not abort the extraction.  In a
\* completed run no gateway call was made for such a page, every other page
\* of the range (the later ones too) was extracted, pagesProcessed is
\* endPage - startPage + 1, and the progress callback was invoked for the
\* position of that page in the range.
C11_NoImagePageCounted ==
    HasReturned =>
        /\ CalledPages = (startPage..endPage) \ NoImagePages
        /\ result.pagesProcessed = endPage - startPage + 1
        /\ HasCallback(caller) =>
             \A p \in NoImagePages :
                \E k \in 1..Len(progressLog) :
                    progressLog[k][1] = p - startPage + 1

\* The run has stored a paper: ingest or upload without --dry-run, or the
\* import of the intermediate file.
Stored ==
    \/ xpc = "imported"
    \/ xpc = "done" /\ caller \in {"ingest", "upload"} /\ ~dryRun

Repaired == rres # NoRepair
Text == Render(rdoc)

\* Some string literal of s ends in an escaped backslash: reading s as JSON
\* does, a closing quote comes right after a backslash.
RECURSIVE ClosesAfterBackslash(_, _, _)
ClosesAfterBackslash(s, i, inString) ==
    IF i > Len(s) THEN FALSE
    ELSE IF ~inString THEN ClosesAfterBackslash(s, i + 1, s[i] = QUOTE)
    ELSE IF s[i] = BSLASH THEN ClosesAfterBackslash(s, i + 2, TRUE)
    ELSE IF s[i] = QUOTE
         THEN s[i - 1] = BSLASH \/ ClosesAfterBackslash(s, i + 1, FALSE)
    ELSE ClosesAfterBackslash(s, i + 1, TRUE)

StringEndsInBackslash(s) == ClosesAfterBackslash(s, 1, FALSE)

\* C15 as stated: for every text that is valid JSON (so without raw line
\* break in a string; escaped quotes and escaped backslashes allowed) the
\* repaired text parses to the same value as the text.
C15_RepairPreservesValidJson ==
    (Repaired /\ JsonParse(Text).ok) =>
        JsonParse(rres.repaired) = JsonParse(Text)

\* C15 amended: for every text that is valid JSON and in which no string
\* literal ends in an escaped backslash, the repaired text parses to the
\* same value as the text.
C15_RepairPreservesTrackedJson ==
    (Repaired /\ JsonParse(Text).ok /\ ~StringEndsInBackslash(Text)) =>
        JsonParse(rres.repaired) = JsonParse(Text)

\* A padded object with an escaped backslash and an escaped quote in its
\* value and a line break before the closing brace.
C15_Witness ==
    /\ Repaired /\ rdoc.shape = "object" /\ rdoc.padded
    /\ rdoc.content = <<EscBackslash, EscQuote>> /\ rdoc.ws2 = <<NL>>
    /\ JsonParse(Text).ok /\ ~StringEndsInBackslash(Text)
    /\ JsonParse(rres.repaired).val = Meant(rdoc)

\* The document is an object in a tagged fence whose string value holds a
\* raw line break.
FencedWithRawNewline ==
    /\ rdoc.shape = "object"
    /\ rdoc.opener = FenceJson /\ rdoc.closer = Fence
    /\ \E i \in 1..Len(rdoc.content) : rdoc.content[i] = RawNewline

\* C16 as stated: for an object with one string member whose value holds a
\* raw line break, wrapped in a tagged fence, the repaired text parses and
\* the value is the string with the line break as content.
C16_FencedNewlineRoundTrip ==
    (Repaired /\ FencedWithRawNewline) =>
        JsonParse(rres.repaired) = [ok |-> TRUE, val |-> Meant(rdoc)]

\* C16 amended: the same, for objects in which neither the key nor the
\* value ends in an escaped backslash.
C16_FencedNewlineRoundTripTracked ==
    (Repaired /\ FencedWithRawNewline /\ ~StringEndsInBackslash(Text)) =>
        JsonParse(rres.repaired) = [ok |-> TRUE, val |-> Meant(rdoc)]

\* The value a, line break, a in a fence, read back with one line break.
C16_Witness ==
    /\ Repaired /\ FencedWithRawNewline /\ ~StringEndsInBackslash(Text)
    /\ rdoc.content = <<RawNewline, PlainA>> /\ rdoc.gap = <<NL>>
    /\ JsonParse(rres.repaired).ok
    /\ JsonParse(rres.repaired).val[3] = <<"string", <<NL, "a">> >>

(***************************************************************************)
(* Properties of the gateway (checked under SpecGateway).                  *)
(***************************************************************************)
\* The last gateway call of the process has ended.
CallEnded == gpc = "running" /\ gwCalls > 0

Answered == CallEnded /\ lastCall.outcome \in {"ok", "parse"}
AnsweredText == ResponseText(lastCall.resp)

\* C13: generateJson sends exactly one request per call.  The response goes
\* through the repair engine only when it does not parse as it is, and then
\* once; the call returns the parsed value of the raw text, else the parsed
\* value of the repaired text, else fails with a parse error.
C13_GenerateJsonSecondChance ==
    /\ gwRequests <= gwCalls
    /\ (CallEnded /\ lastCall.method = "generateJson"
           /\ lastCall.outcome # "config") =>
        /\ lastCall.requests = 1
        /\ lastCall.outcome = "transport" => lastCall.repairs = 0
        /\ Answered =>
            LET raw == JsonParse(AnsweredText)
                fixed == JsonParse(SanitizeJsonResponse(AnsweredText))
            IN /\ lastCall.repairs = IF raw.ok THEN 0 ELSE 1
               /\ raw.ok =>
                    lastCall.outcome = "ok" /\ lastCall.data = raw.val
               /\ (~raw.ok /\ fixed.ok) =>
                    lastCall.outcome = "ok" /\ lastCall.data = fixed.val
               /\ (~raw.ok /\ ~fixed.ok) => lastCall.outcome = "parse"

\* A fenced response was returned after one repair.
C13_Witness ==
    /\ Answered /\ lastCall.method = "generateJson"
    /\ StartsWith(AnsweredText, FenceJson)
    /\ lastCall.outcome = "ok" /\ lastCall.repairs = 1
    /\ lastCall.data = Meant(ResponseDocs[lastCall.resp])

\* C14: the extraction path repairs.  When the response to analyzeImage
\* does not parse as it is but parses after the repair engine, the call
\* returns the repaired value instead of failing.
C14_ExtractionRepairs ==
    (Answered /\ lastCall.method = "analyzeImage"
        /\ JsonParse(SanitizeJsonResponse(AnsweredText)).ok) =>
        /\ lastCall.outcome = "ok"
        /\ lastCall.data = JsonParse(SanitizeJsonResponse(AnsweredText)).val

C20_LazySingleton ==
    /\ constructed <= 1
    /\ client = "created" <=> constructed = 1
    /\ (CallEnded /\ lastCall.outcome = "config") =>
          lastCall.requests = 0
    /\ (gpc = "running" /\ ~apiKey) => client = "null"
    /\ gpc = "awaiting" => client = "created"
    /\ gwRequests > 0 => client = "created"
    /\ client = "created" => cumulativeUsage = respUsage
    /\ (gproc \in {"ingest", "backfill"} /\ gpc # "start") =>
          /\ inputRead <=> apiKey
          /\ ~apiKey <=> gpc = "exit"
          /\ gpc = "exit" => gwCalls = 0 /\ gwRequests = 0

\* A server whose first use failed for lack of a credential answers three
\* later calls through the one instance.
C20_Witness ==
    /\ gproc = "server" /\ CallEnded /\ gwCalls = MaxCalls
    /\ gwRequests = MaxCalls - 1
    /\ constructed = 1 /\ lastCall.outcome = "ok"

(***************************************************************************)
(* Properties of validateQuestions (checked under SpecValidate).           *)
(***************************************************************************)
Validated == vres # NoValidation

\* The entries of the result for question idx.
EntriesOf(idx) ==
    { vres.errors[k].message :
        k \in { j \in 1..Len(vres.errors) : vres.errors[j].question = idx } }

\* C18: validateQuestions returns, without throwing and without changing
\* its input, a list with an entry for every question whose text is empty
\* or only whitespace, an entry for every question with fewer than two
\* choices or no choices list, an entry for every question whose
\* correctChoice is not null and lies outside [0, number of choices), and
\* no other entry.
C18_ValidationReportsEachDefect ==
    Validated =>
        /\ ~vres.threw
        /\ vres.questions = vq
        /\ \A idx \in 1..Len(vq) :
            LET q == vq[idx]
                n == IF q.choices.present THEN q.choices.length ELSE 0
            IN /\ "Empty question text" \in EntriesOf(idx) <=>
                    \A k \in 1..Len(q.questionText) :
                        q.questionText[k] \in Whitespace
               /\ "Less than 2 choices" \in EntriesOf(idx) <=> n < 2
               /\ "Invalid correct choice index" \in EntriesOf(idx) <=>
                    /\ q.correctChoice # Null
                    /\ q.correctChoice < 0 \/ q.correctChoice >= n

(***************************************************************************)
(* Further properties of the backfill script (checked under SpecBackfill). *)
(***************************************************************************)
\* The pending set as the claim defines it, from the data loaded at start.
PendingOfLoaded ==
    { i \in 1..Len(loaded) :
        /\ loaded[i].correctChoice # Null
        /\ ~(skipExisting /\ Truthy(loaded[i].explanation)) }

\* The same set computed from the data as it is now, explanations written
\* during the run included.
PendingOfData ==
    { i \in 1..Len(data) :
        /\ data[i].correctChoice # Null
        /\ ~(skipExisting /\ Truthy(data[i].explanation)) }

\* C21: the pending set is fixed at the start of the run: it is exactly the
\* set of answered questions of the loaded data that are not skipped for an
\* existing explanation, whatever has been written since, and every member
\* gets exactly one call: never two, and one by the end of the run.
C21_PendingSetFixed ==
    (Running \/ pc \in {"done", "exited"}) =>
        /\ Pending = PendingOfLoaded
        /\ Cardinality(Pending) = Len(questionsToProcess)
        /\ Called \subseteq Pending
        /\ Cardinality(Called) = Len(calls)
        /\ pc = "done" => Called = Pending

\* A finished run with skipExisting in which a question was skipped for its
\* explanation and two calls were made, one of which wrote an explanation
\* that would have removed its question from the set.
C21_Witness ==
    /\ pc = "done" /\ skipExisting /\ Len(calls) >= 2
    /\ PendingOfData # PendingOfLoaded
    /\ \E i \in 1..Len(loaded) :
         loaded[i].correctChoice # Null /\ i \notin Pending

\* The tokens of the handled calls that succeeded.
RECURSIVE TokensOfSucceeded(_)
TokensOfSucceeded(n) ==
    IF n = 0 THEN 0
    ELSE TokensOfSucceeded(n - 1)
         + (IF calls[n] \in failed THEN 0 ELSE TokensOf(calls[n]))

\* C22: the pending questions are processed one after the other in ascending
\* index: the calls made are the first ones of the pending list, at most one
\* of them is unanswered, and while a call is unanswered every earlier call
\* has succeeded or failed and its result is applied: the explanation is
\* written, the token total is the sum over the successes, and every
\* checkpoint that was due has been written.
C22_SequentialAscending ==
    (Running \/ pc = "done") =>
        /\ calls = SubSeq(questionsToProcess, 1, Len(calls))
        /\ \A k \in 1..(Len(calls) - 1) : calls[k] < calls[k + 1]
        /\ Len(calls) - qi = (IF pc = "calling" THEN 1 ELSE 0)
        /\ qi = processed + errors
        /\ totalTokens = TokensOfSucceeded(qi)
        /\ \A k \in 1..qi :
             calls[k] \notin failed =>
                 data[calls[k]].explanation = Generated(runs)
        /\ pc = "calling" =>
             /\ Len(writeLog) = processed \div batchSize
             /\ writeLog # <<>> => outputFile.kind = "complete"

\* The third call is unanswered after a failure and a success, and the
\* checkpoint that was due after the success has been written.
C22_Witness ==
    /\ pc = "calling" /\ Len(calls) = 3
    /\ calls[1] \in failed /\ calls[2] \notin failed
    /\ writeLog = <<1>>

\* The frame of a list of questions against the loaded one: same number and
\* order, same answer and order index, and an explanation that differs only
\* for a pending question whose call succeeded.
KeepsAllButExplanations(qs) ==
    /\ Len(qs) = Len(loaded)
    /\ \A i \in 1..Len(loaded) :
         /\ qs[i].correctChoice = loaded[i].correctChoice
         /\ qs[i].orderIndex = loaded[i].orderIndex
         /\ qs[i].explanation # loaded[i].explanation =>
              /\ i \in Pending
              /\ i \in Called \ failed
              /\ qs[i].explanation = Generated(runs)
         /\ i \in failed => qs[i].explanation = loaded[i].explanation

\* C25: backfill changes only explanations.  The data in memory, and with it
\* every checkpoint and the final output written from it, keeps the number
\* and order of the questions and every field other than the explanation;
\* an explanation changes only for a pending question whose call succeeded,
\* and a failed question keeps the explanation state it was loaded with.
C25_OnlyExplanationsChange ==
    (Running \/ pc = "done") =>
        /\ KeepsAllButExplanations(data)
        /\ (writeLog # <<>> /\ outputFile.kind = "complete") =>
               KeepsAllButExplanations(outputFile.questions)

\* A finished run without skipExisting whose output holds a replaced
\* explanation, a kept one of a failed question and an unanswered question.
C25_Witness ==
    /\ pc = "done" /\ ~skipExisting
    /\ \E i, j, k \in 1..Len(loaded) :
         /\ i \in failed /\ Truthy(loaded[i].explanation)
         /\ j \in Called \ failed /\ Truthy(loaded[j].explanation)
         /\ outputFile.questions[j].explanation = Generated(runs)
         /\ loaded[k].correctChoice = Null

(***************************************************************************)
(* Further properties of the extraction driver (checked under SpecDriver). *)
(***************************************************************************)
\* The positions of the trace that hold a given step.
StepsOf(step) == { i \in 1..Len(trace) : trace[i][1] = step }

\* The gateway calls that have no answer yet.
InFlight ==
    Cardinality(StepsOf("call"))
        - Cardinality(StepsOf("resp")) - Cardinality(StepsOf("fail"))

\* C23: extraction handles the pages one after the other in increasing page
\* number.  A page is rasterized only when the page before it is done with:
\* it gave no image, or its response was received and appended and the
\* delay awaited; a call is made right after the rasterization of its page
\* and is answered before anything else happens; at most one call is
\* unanswered; no page is called twice; and the questions of every answered
\* call are in the list.
C23_PagesSequential ==
    /\ \A i \in 1..Len(trace) :
         /\ (trace[i][1] = "raster" /\ i = 1) => trace[i][2] = startPage
         /\ (trace[i][1] = "raster" /\ i > 1) =>
              /\ trace[i - 1][1] \in {"raster", "delay"}
              /\ trace[i - 1][2] = trace[i][2] - 1
         /\ trace[i][1] = "delay" => trace[i - 1] = <<"resp", trace[i][2]>>
         /\ trace[i][1] = "call" =>
              /\ trace[i - 1] = <<"raster", trace[i][2]>>
              /\ i = Len(trace) => xpc = "calling"
              /\ i < Len(trace) =>
                   /\ trace[i + 1][1] \in {"resp", "fail"}
                   /\ trace[i + 1][2] = trace[i][2]
    /\ \A i, j \in StepsOf("raster") : i < j => trace[i][2] < trace[j][2]
    /\ \A i, j \in StepsOf("call") : i # j => trace[i][2] # trace[j][2]
    /\ InFlight = (IF xpc = "calling" THEN 1 ELSE 0)
    /\ \A k \in 1..Len(gatewayCalls) :
         gatewayCalls[k][2] # CallFailed =>
            Cardinality({ q \in 1..Len(allQuestions) :
                allQuestions[q].pageNumber = gatewayCalls[k][1] })
              = gatewayCalls[k][2]

\* The call of page 3 is unanswered after page 0 gave no image and the
\* pages 1 and 2 were extracted.
C23_Witness ==
    /\ xpc = "calling" /\ startPage = 0 /\ pageNum = 3
    /\ Len(gatewayCalls) = 2 /\ Len(allQuestions) >= 2

\* C24: between any two consecutive gateway requests of a run the driver
\* has awaited exactly one inter-page delay.
C24_DelayBetweenRequests ==
    \A i, j \in StepsOf("call") :
        (i < j /\ \A k \in StepsOf("call") : ~(i < k /\ k < j)) =>
            Cardinality({ d \in StepsOf("delay") : i < d /\ d < j }) = 1

\* A returned run over a range that begins with a page without image and
\* in which three requests were made.
C24_Witness ==
    /\ xpc = "returned" /\ startPage = 0
    /\ Cardinality(StepsOf("call")) = 3
    /\ NoImagePages # {}

\* The pointwise sum of the usages the first n gateway calls returned.
RECURSIVE UsageOfCalls(_)
UsageOfCalls(n) ==
    IF n = 0 THEN ZeroUsage
    ELSE LET rest == UsageOfCalls(n - 1)
             u == [promptTokens |-> 1,
                   completionTokens |-> gatewayCalls[n][2],
                   totalTokens |-> 1 + gatewayCalls[n][2]]
         IN [promptTokens |-> rest.promptTokens + u.promptTokens,
             completionTokens |->
                 rest.completionTokens + u.completionTokens,
             totalTokens |-> rest.totalTokens + u.totalTokens]

\* C26: in a completed run the totalUsage of the result is the pointwise
\* sum of the usages the gateway calls of the pages returned, and it is the
\* increase of the gateway's cumulative usage over the run; a page without
\* image has no call and adds nothing.
C26_ExtractionUsage ==
    result # NoResult =>
        /\ result.totalUsage = UsageOfCalls(Len(gatewayCalls))
        /\ cumulativeUsage.promptTokens =
               usageBefore.promptTokens + result.totalUsage.promptTokens
        /\ cumulativeUsage.completionTokens =
               usageBefore.completionTokens
                   + result.totalUsage.completionTokens
        /\ cumulativeUsage.totalTokens =
               usageBefore.totalTokens + result.totalUsage.totalTokens
        /\ NoImagePages \cap CalledPages = {}
        /\ Len(gatewayCalls) =
               Cardinality((startPage..endPage) \ NoImagePages)

\* A returned run of a process whose gateway had been used before, over a
\* range with a page without image and two extracted pages with a
\* different number of questions.
C26_Witness ==
    /\ result # NoResult /\ usageBefore # ZeroUsage
    /\ NoImagePages # {} /\ Len(gatewayCalls) = 2
    /\ gatewayCalls[1][2] # gatewayCalls[2][2]

(***************************************************************************)
(* Further properties of the repair engine (checked under SpecRepair).     *)
(***************************************************************************)
\* The tracked in-string state before character i of c: an odd number of
\* the double quotes before i is not right after a backslash.
Tracked(c, i) ==
    Cardinality({ j \in 1..(i - 1) :
        c[j] = QUOTE /\ (j = 1 \/ c[j - 1] # BSLASH) }) % 2 = 1

\* The characters of c the scan replaces, and where character i of c goes.
Escaped(c) == { i \in 1..Len(c) : c[i] \in {NL, CR, TAB} /\ Tracked(c, i) }
PlaceOf(c, i) == i + Cardinality({ j \in Escaped(c) : j < i })

\* C27: the scan returns the cleaned text with every raw line feed,
\* carriage return and tab inside a tracked string replaced by its
\* two-character escape, and every other character copied in order, where
\* the tracked state starts false and toggles on the double quotes that are
\* not right after a backslash.
C27_ScanEscapesTrackedControls ==
    Repaired =>
        LET c == rres.cleaned
            out == rres.repaired
        IN /\ Len(out) = Len(c) + Cardinality(Escaped(c))
           /\ \A i \in 1..Len(c) :
                IF i \in Escaped(c)
                THEN /\ out[PlaceOf(c, i)] = BSLASH
                     /\ out[PlaceOf(c, i) + 1] =
                            (CASE c[i] = NL -> "n"
                               [] c[i] = CR -> "r"
                               [] OTHER -> "t")
                ELSE out[PlaceOf(c, i)] = c[i]

\* A repaired text with a tab replaced in a tracked string, a line break
\* kept outside, and a double quote after an escaped backslash that did
\* not toggle the state.
C27_Witness ==
    /\ Repaired
    /\ LET c == rres.cleaned IN
         /\ \E i \in Escaped(c) : c[i] = TAB
         /\ \E i \in 1..Len(c) : c[i] = NL /\ ~Tracked(c, i)
         /\ \E i \in 3..Len(c) :
              /\ c[i] = QUOTE /\ c[i - 1] = BSLASH /\ c[i - 2] = BSLASH
              /\ Tracked(c, i) /\ Tracked(c, i + 1)

\* s without its leading and trailing whitespace.
Trimmed(s) ==
    LET inner == { i \in 1..Len(s) : s[i] \notin Whitespace }
    IN IF inner = {} THEN <<>>
       ELSE SubSeq(s, CHOOSE i \in inner : \A j \in inner : i <= j,
                      CHOOSE i \in inner : \A j \in inner : i >= j)

\* C28: the cleaned text is the trimmed text without one opening fence,
\* the tagged one if it begins with it, else the bare one if it begins with
\* that, and then without one closing fence if it ends with one, trimmed
\* again; a second fence behind the first stays.  A text without leading
\* and trailing fence is only trimmed, and the body of a document in fences
\* and padding is returned as it is.
C28_FenceStripping ==
    Repaired =>
        LET a == Trimmed(Text)
            opener == IF StartsWith(a, FenceJson) THEN 7
                      ELSE IF StartsWith(a, Fence) THEN 3 ELSE 0
            b == SubSeq(a, opener + 1, Len(a))
            closer == IF EndsWith(b, Fence) THEN 3 ELSE 0
        IN /\ rres.cleaned = Trimmed(SubSeq(b, 1, Len(b) - closer))
           /\ (~StartsWith(a, Fence) /\ ~EndsWith(a, Fence)) =>
                  rres.cleaned = a
           /\ rdoc.shape # "raw" => rres.cleaned = Body(rdoc)

\* A text of a tagged fence followed by two bare ones: the tagged opener and
\* the last fence are removed, the fence between them stays.
C28_Witness ==
    /\ Repaired
    /\ Text = FenceJson \o Fence \o Fence
    /\ rres.cleaned = Fence

(***************************************************************************)
(* Further properties of the gateway (checked under SpecGateway).          *)
(***************************************************************************)
\* C30: the message of every parse error, whatever the method that raised
\* it, carries at most the first SnippetLength characters of the response
\* text.
C30_ParseErrorSnippetBounded ==
    (lastCall # NoCall /\ lastCall.outcome = "parse") =>
        /\ Len(lastCall.message) <= SnippetLength
        /\ lastCall.message =
               Substring(ResponseText(lastCall.resp), SnippetLength)

(***************************************************************************)
(* Properties of the rasterizer (checked under SpecRaster).                *)
(***************************************************************************)
\* The distinct requested page numbers the document has.
RequestedPages ==
    { p \in 1..rzDoc.pages : \E i \in 1..Len(rzRequest) : rzRequest[i] = p }

\* C29: for any document and any list of page numbers the result holds one
\* image for each distinct requested number that the document has and none
\* else, in strictly ascending order; for a document that cannot be read
\* the call throws and returns no image.
C29_RasterizerOutput ==
    rzres # NoImages =>
        IF rzDoc.readable
        THEN /\ ~rzres.threw
             /\ { rzres.images[i] : i \in 1..Len(rzres.images) }
                    = RequestedPages
             /\ Len(rzres.images) = Cardinality(RequestedPages)
             /\ \A i \in 1..(Len(rzres.images) - 1) :
                    rzres.images[i] < rzres.images[i + 1]
        ELSE rzres.threw /\ rzres.images = <<>>

\* A request in descending order with a repeated number, the number 0 and a
\* number behind the last page, answered with one image.
C29_Witness ==
    /\ rzres # NoImages /\ ~rzres.threw
    /\ Len(rzRequest) = 4 /\ Len(rzres.images) = 1
    /\ \E i \in 1..4 : rzRequest[i] = 0
    /\ \E i \in 1..4 : rzRequest[i] > rzDoc.pages
    /\ \E i, j \in 1..4 : i < j /\ rzRequest[i] = rzRequest[j]
    /\ rzRequest[1] > rzRequest[2]

(***************************************************************************)
(* The intermediate file.                                                  *)
(***************************************************************************)
\* The file ingest --dry-run has written.
FileWritten == caller = "ingest" /\ savedFile # NoResult

\* The content of the written file: the questions of the result in their
\* order, orderIndex the zero-based position (the number given by the
\* renumbering, minus one), correctChoice as returned by the model, and the
\* three counts of stats.
FileContents ==
    LET qs == savedFile.questions
        back == Returned(gatewayCalls)
    IN /\ Len(qs) = Len(back)
       /\ \A i \in 1..Len(qs) :
            /\ qs[i].questionText = back[i]
            /\ qs[i].orderIndex = i - 1
            /\ qs[i].orderIndex = result.questions[i].questionNumber - 1
            /\ qs[i].correctChoice = result.questions[i].correctChoice
       /\ savedFile.stats.totalQuestions = Len(qs)
       /\ savedFile.stats.pagesProcessed = endPage - startPage + 1
       /\ savedFile.stats.tokensUsed
              = UsageOfCalls(Len(gatewayCalls)).totalTokens

\* The backfill driver started on the file loads its questions as they are
\* and finds pending exactly the answered ones.
BackfillTakesFile ==
    LET qs == AsPaperData(savedFile) IN
    /\ LoadData(FALSE, AbsentFile, qs) = qs
    /\ Len(qs) = Len(savedFile.questions)
    /\ \A skip \in BOOLEAN :
         { QuestionsToProcess(qs, skip)[k] :
             k \in 1..Len(QuestionsToProcess(qs, skip)) }
           = { i \in 1..Len(qs) : savedFile.questions[i].correctChoice # Null }

\* C31: the file written by a dry-run ingest lists the questions in
\* extraction order with orderIndex 0..N-1, keeps correctChoice as extracted,
\* has stats equal to the number of questions, endPage - startPage + 1 and
\* the run's total tokens, and is taken as it is by the backfill driver and
\* by import.
C31_IntermediateFile ==
    FileWritten =>
        /\ FileContents
        /\ BackfillTakesFile
        /\ ImportAccepts(savedFile)

\* The same for every file but its acceptance by import, and the
\* acceptance of the files written with a name and a source.
C31_FileContentsAndBackfill ==
    FileWritten =>
        /\ FileContents
        /\ BackfillTakesFile
        /\ (paperName # "" /\ paperSource # "" => ImportAccepts(savedFile))

\* A file of three questions, an unanswered one among them, refused by
\* import.
C31_RefusedFile ==
    /\ xpc = "import_rejected" /\ Len(savedFile.questions) = 3
    /\ \E i \in 1..3 : savedFile.questions[i].correctChoice = Null
    /\ \E i \in 1..3 : savedFile.questions[i].correctChoice # Null

(***************************************************************************)
(* Retry by re-running.                                                    *)
(***************************************************************************)
\* The run before the one that begins: it has ended or was interrupted.
RunEnded == runs >= 1 /\ pc \in {"done", "exited", "killed"}

\* The indices whose call returned an explanation during the run, in order.
SucceededSeq ==
    SelectSeq(SubSeq(calls, 1, qi), LAMBDA i : i \notin failed)
Succeeded == { SucceededSeq[k] : k \in 1..Len(SucceededSeq) }
\* Those of them that the last completed write of the run has saved.
Saved ==
    { SucceededSeq[k] :
        k \in 1..(IF writeLog = <<>> THEN 0 ELSE writeLog[Len(writeLog)]) }
\* The pending set of the run that begins with this step.
PendingOfNextRun ==
    { questionsToProcess'[k] : k \in 1..Len(questionsToProcess') }

\* A run has found nothing pending and every answered question has an
\* explanation.
Converged ==
    /\ pc = "exited"
    /\ \A i \in 1..Len(data) :
         data[i].correctChoice # Null => Truthy(data[i].explanation)

C33_SummaryConsistent ==
    (gproc = "backfill" /\ gpc = "running") =>
        okUsage.totalTokens = cumulativeUsage.totalTokens

(***************************************************************************)
(* The two copies of the repair routine.                                   *)
(***************************************************************************)
\* C34: for every text, the copy of the explanation generator returns what
\* the gateway's sanitizeJsonResponse returns, and the generator's parsing
\* of a response succeeds exactly when generateJson's does, with the same
\* value.
C34_RepairCopiesAgree ==
    (rres # NoRepair /\ odres # NoRepair) =>
        /\ odres.repaired = rres.repaired
        /\ odres.accepted = (GenerateJsonResult(Text).outcome = "ok")
        /\ odres.data = GenerateJsonResult(Text).data

\* Both copies were given a fenced object whose value holds a raw newline:
\* the text parses only after the repair, which changes it.
C34_Witness ==
    /\ rres # NoRepair /\ odres # NoRepair
    /\ rdoc.shape = "object" /\ rdoc.opener = FenceJson
    /\ \E k \in 1..Len(rdoc.content) : rdoc.content[k] = RawNewline
    /\ odres.accepted /\ ~JsonParse(Text).ok
    /\ odres.repaired # Text

(***************************************************************************)
(* The on-demand endpoint.                                                 *)
(***************************************************************************)
CallsFor(id) == { k \in 1..Len(modelCalls) : modelCalls[k] = id }
CachedAnswers ==
    { h \in 1..MaxHandlers :
        /\ handlers[h] # Idle /\ handlers[h].pc = "done"
        /\ handlers[h].cached }

\* C35: under concurrent requests for a question the model is called at
\* most once for it, a stored non-empty explanation is never replaced, and
\* a request that finds an explanation returns it as cached, having made
\* no model call and no write.
C35_EndpointOncePerQuestion ==
    /\ \A id \in 1..Len(origin) : Cardinality(CallsFor(id)) <= 1
    /\ \A k \in 1..Len(writes) : ~Truthy(writes[k][2])
    /\ \A h \in CachedAnswers :
          /\ Truthy(handlers[h].explanation)
          /\ Len(modelCalls) + Len(writes) <=
                 2 * Cardinality({ g \in 1..MaxHandlers :
                                     g # h /\ handlers[g] # Idle })

\* The part of C35 the code keeps: a cached answer carries a non-empty
\* text that some question holds or held, and the handler that gave it
\* made no model call and no write.
C35_CachedAnswers ==
    \A h \in CachedAnswers :
        /\ handlers[h].status = 200
        /\ Truthy(handlers[h].explanation)
        /\ Len(modelCalls) + Len(writes) <=
               2 * Cardinality({ g \in 1..MaxHandlers :
                                   g # h /\ handlers[g] # Idle })

\* Two requests have called the model for one question and the second
\* text has replaced the first.
C35_Overwritten ==
    /\ \E id \in 1..Len(origin) : Cardinality(CallsFor(id)) = 2
    /\ \E k \in 1..Len(writes) : Truthy(writes[k][2])

\* C36: a question whose correctChoice was null when it was extracted gets
\* no generated explanation after ingest or import either: the endpoint
\* calls the model for no such question and no such row holds a text of
\* the model.
C36_NullNeverExplained ==
    /\ \A k \in 1..Len(modelCalls) : origin[modelCalls[k]] # Null
    /\ \A q \in questions :
          origin[q.id] = Null => q.explanation \notin {"gen1", "gen2"}

\* The row of a question extracted without an answer holds answer 0 and a
\* text of the model.
C36_NullExplained ==
    \E q \in questions :
        /\ origin[q.id] = Null /\ q.correctChoice = 0
        /\ q.explanation \in {"gen1", "gen2"}

(***************************************************************************)
(* The database after the scripts.                                         *)
(***************************************************************************)
QuestionsOf(paperId) == { q \in questions : q.paperId = paperId }
NoDangling ==
    /\ \A q \in questions : \E p \in papers : p.id = q.paperId
    /\ \A r \in testSessions : \E p \in papers : p.id = r.paperId

\* C37: after any sequence of runs of ingest, import and delete-paper,
\* runs that failed or were killed between two statements included, the
\* questionCount of every paper is the number of its question rows, and
\* no question or session row refers to a paper that is not there.
C37_StoreConsistent ==
    script = NoScript =>
        /\ \A p \in papers :
              p.questionCount = Cardinality(QuestionsOf(p.id))
        /\ NoDangling

\* The part of C37 the database keeps at every moment: the foreign keys.
C37_NoDanglingRows == NoDangling

\* No script is running and a paper that counts questions has no rows.
C37_CountWithoutRows ==
    /\ script = NoScript
    /\ \E p \in papers : p.questionCount > 0 /\ QuestionsOf(p.id) = {}

(***************************************************************************)
(* Test sessions.                                                          *)
(***************************************************************************)
\* The questions of the paper of session r whose stored answer is the
\* correct choice, counted on the rows themselves.
CorrectStored(r) ==
    { q \in questions :
        /\ q.paperId = r.paperId
        /\ q.id \in DOMAIN r.answers
        /\ r.answers[q.id] = q.correctChoice }
StaysCompleted ==
    \A r \in testSessions :
        r.status = "completed" =>
            \A t \in testSessions' : t.id = r.id => t.status = "completed"

\* C38: the status of a session goes from in_progress to completed and
\* never back, and the stored score of a completed session is the number
\* of questions of its paper whose stored answer is the correct choice, in
\* whatever order the save and submit requests reach the server.
C38_SessionStateMachine ==
    /\ [][StaysCompleted]_vars
    /\ [](\A r \in testSessions :
            /\ r.status \in {"in_progress", "completed"}
            /\ r.status = "completed" =>
                   r.score = Cardinality(CorrectStored(r)))

\* The part of C38 the code keeps: the status never goes back, and a
\* session has a score exactly when it is completed.
C38_StatusForward ==
    /\ [][StaysCompleted]_vars
    /\ [](\A r \in testSessions :
            /\ r.status \in {"in_progress", "completed"}
            /\ (r.status = "completed") = (r.score # Null))

\* A completed session whose stored answers give another count than its
\* score, after a save and a submit were both answered.
C38_SaveAfterSubmit ==
    \E r \in testSessions :
        /\ r.status = "completed"
        /\ r.score # Cardinality(CorrectStored(r))
        /\ \A h \in 1..MaxHandlers :
              handlers[h] # Idle /\ handlers[h].pc = "done"
====
